---- MODULE Spec2Model ----
(***************************************************************************)
(* A model of the NES emulator core of src/src/main.rs: the fixed-bank     *)
(* mapper, the cartridge, the work RAM, the CPU memory bus with its        *)
(* open-bus latch, and the 6502 instruction engine (Cpu::reset and         *)
(* Cpu::run_instr), driven as main drives them.                            *)
(*                                                                         *)
(* Bytes are 0..255 and addresses 0..65535; every arithmetic step keeps    *)
(* the width the Rust code has (wrapping_add / wrapping_sub / u16 adds).   *)
(* Hexadecimal literals are written \hNN as in the source.                 *)
(***************************************************************************)
EXTENDS Integers, Sequences, FiniteSets, TLC

VARIABLES
    file,                  \* the ROM file main opens: its header and PRG data
    pages,                 \* Mmc1.pages: the PRG banks, in file order
    storage,               \* Ram.storage
    last_exchanged_value,  \* CpuMemoryBus.last_exchanged_value
    a_reg, x_reg, y_reg,   \* Cpu registers
    prog_counter,
    stack_pointer,
    status_flags,
    phase,                 \* where main is: "start", "new", "running", "panicked"
    opcode,                \* the opcode byte the last run_instr fetched (-1: none)
    log,                   \* the bus accesses of the last operation, in order
    ret,                   \* the value the last device / bus call returned
    pre,                   \* the registers, latch and RAM before the last operation
    steps,                 \* the number of operations performed so far
    fetched                \* the opcode bytes run_instr fetched since power-on

vars == <<file, pages, storage, last_exchanged_value, a_reg, x_reg, y_reg,
          prog_counter, stack_pointer, status_flags, phase, opcode, log,
          ret, pre, steps, fetched>>

---------------------------------------------------------------------------
(* Bounds of the model.                                                    *)

MaxSteps == 7      \* run_instr iterations of main's loop that are followed
MaxBanks == 2      \* PRG banks in a cartridge image
MaxCalls == 3      \* direct device / bus calls in the component-level runs
MaxPushes == 16    \* pushes of the stack programs
MaxProgramSteps == 800   \* run_instr iterations followed on a straight-line program

---------------------------------------------------------------------------
(* Program constants.                                                      *)

ROM_PAGE_SIZE == 16384
RAM_SIZE == 2048

CARRY == 1
ZERO == 2
INTERRUPT_DISABLE == 4
DECIMAL == 8
B_FLAG == 16
IGNORED == 32
OVERFLOW == 64
NEGATIVE == 128

Byte == 0..255
None == -1         \* Option::None of the device read results; not yet created

---------------------------------------------------------------------------
(* The integer operators of the source, at the width the source uses.      *)

RECURSIVE BitAnd(_, _)
BitAnd(x, y) ==
    IF x = 0 \/ y = 0 THEN 0
    ELSE (x % 2) * (y % 2) + 2 * BitAnd(x \div 2, y \div 2)

BitOr(x, y) == x + y - BitAnd(x, y)

BitXor(x, y) == x + y - 2 * BitAnd(x, y)

wrapping_add8(x, n) == (x + n) % 256

wrapping_sub8(x, n) == (x - n + 256) % 256

wrapping_add16(x, n) == (x + n) % 65536

\* bitflags: self.status_flags.set(flag, value)
FlagSet(flags, flag, value) ==
    IF value THEN BitOr(flags, flag) ELSE BitAnd(flags, 255 - flag)

\* bitflags: !(self.status_flags & flag).is_empty()
FlagHas(flags, flag) == BitAnd(flags, flag) # 0

\* bitflags: from_bits_truncate keeps the bits that are named flags; all
\* eight bits of the byte are named.
from_bits_truncate(bits) ==
    BitAnd(bits, CARRY + ZERO + INTERRUPT_DISABLE + DECIMAL + B_FLAG
                 + IGNORED + OVERFLOW + NEGATIVE)

---------------------------------------------------------------------------
(* Mapper, cartridge and work RAM.                                         *)
(*                                                                         *)
(* A bank ([u8; ROM_PAGE_SIZE]) is kept as a fill byte and the finitely    *)
(* many cells that differ from it; PageByte is the array indexing d[i].    *)
(* The RAM array starts all zero (main), and is kept as the cells that     *)
(* were written; RamCell is the array indexing storage[i].                 *)

PageByte(d, i) == IF i \in DOMAIN d.cells THEN d.cells[i] ELSE d.fill

RamCell(st, i) == IF i \in DOMAIN st THEN st[i] ELSE 0

RamStore(st, i, data) ==
    [j \in (DOMAIN st) \cup {i} |-> IF j = i THEN data ELSE st[j]]

\* Mmc1::read serving the first bank (pages.first())
Mmc1_read_FirstBank(pgs, address) ==
    IF address >= \hC000 /\ address <= \hFFFF
    THEN IF Len(pgs) = 0 THEN None
         ELSE PageByte(pgs[1], address - \hC000)
    ELSE None

\* impl Mapper for Mmc1: read
Mmc1_read(pgs, address) ==
    IF address >= \hC000 /\ address <= \hFFFF
    THEN IF Len(pgs) = 0 THEN None
         ELSE PageByte(pgs[Len(pgs)], address - \hC000)
    ELSE None

\* impl Mapper for Mmc1: write
Mmc1_write(pgs, address, data) == [claimed |-> FALSE, pages |-> pgs]

\* Cart::read with the bank mirrored at 0x8000..0xBFFF
Cart_read_Mirrored(pgs, address) ==
    IF address >= \h8000 /\ address < \hC000
    THEN Mmc1_read(pgs, address + \h4000)
    ELSE Mmc1_read(pgs, address)

\* impl CpuBusMember for Cart (through MapperEnum)
Cart_read(pgs, address) == Mmc1_read(pgs, address)

Cart_write(pgs, address, data) == Mmc1_write(pgs, address, data)

\* impl CpuBusMember for Ram: read
Ram_read(st, address) ==
    IF address > \h1FFF THEN None
    ELSE RamCell(st, address % RAM_SIZE)

\* Ram::write claiming only the unmirrored 2 KiB
Ram_write_NoMirror(st, address, data) ==
    IF address >= RAM_SIZE THEN [claimed |-> FALSE, storage |-> st]
    ELSE [claimed |-> TRUE, storage |-> RamStore(st, address, data)]

\* impl CpuBusMember for Ram: write
Ram_write(st, address, data) ==
    IF address > \h1FFF THEN [claimed |-> FALSE, storage |-> st]
    ELSE [claimed |-> TRUE, storage |-> RamStore(st, address % RAM_SIZE, data)]

---------------------------------------------------------------------------
(* The machine record: everything an operation reads and writes, gathered  *)
(* from the variables, threaded through the operation, and installed back. *)
(* data is the byte the last bus read returned; address, low_addr and      *)
(* new_data hold the locals of those names; halted is set by todo!();      *)
(* branch is what the diagnostic line of a relative branch ends with.      *)
(*                                                                         *)
(* An operation is written as a pipeline: each statement of the source is  *)
(* a step that takes the machine the statement before it left.             *)

Cur ==
    [pages |-> pages, storage |-> storage,
     last_exchanged_value |-> last_exchanged_value,
     a_reg |-> a_reg, x_reg |-> x_reg, y_reg |-> y_reg,
     prog_counter |-> prog_counter, stack_pointer |-> stack_pointer,
     status_flags |-> status_flags,
     log |-> << >>, data |-> None, address |-> 0, low_addr |-> 0,
     new_data |-> 0, halted |-> FALSE, opcode |-> -1, branch |-> "none"]

\* CpuMemoryBus::read giving 0 on the open bus instead of the latch
CpuMemoryBus_read_OpenBusZero(m, address) ==
    LET done(c, r, data) ==
          [m EXCEPT !.last_exchanged_value = data,
                    !.data = data,
                    !.log = Append(@, [op |-> "read", address |-> address,
                                       data |-> data,
                                       asked |-> IF c # None THEN <<"cart">>
                                                 ELSE <<"cart", "ram">>,
                                       claimed |-> c # None \/ r # None])]
        pick(c, r) == done(c, r, IF c # None THEN c
                                 ELSE IF r # None THEN r
                                 ELSE 0)
    IN pick(Cart_read(m.pages, address), Ram_read(m.storage, address))

\* CpuMemoryBus::read: the cartridge is asked first, the RAM only when the
\* cartridge returns none, the latch when both do
CpuMemoryBus_read(m, address) ==
    LET done(c, r, data) ==
          [m EXCEPT !.last_exchanged_value = data,
                    !.data = data,
                    !.log = Append(@, [op |-> "read", address |-> address,
                                       data |-> data,
                                       asked |-> IF c # None THEN <<"cart">>
                                                 ELSE <<"cart", "ram">>,
                                       claimed |-> c # None \/ r # None])]
        pick(c, r) == done(c, r, IF c # None THEN c
                                 ELSE IF r # None THEN r
                                 ELSE m.last_exchanged_value)
    IN pick(Cart_read(m.pages, address), Ram_read(m.storage, address))

\* CpuMemoryBus::write latching the byte only when a device took it
CpuMemoryBus_write_LatchIfWritten(m, address, data) ==
    LET done(c, r) ==
          [m EXCEPT !.last_exchanged_value =
                        IF r.claimed \/ (c.claimed \/ FALSE) THEN data
                        ELSE m.last_exchanged_value,
                    !.pages = c.pages,
                    !.storage = r.storage,
                    !.log = Append(@, [op |-> "write", address |-> address,
                                       data |-> data,
                                       asked |-> <<"cart", "ram">>,
                                       claimed |-> r.claimed
                                                   \/ (c.claimed \/ FALSE)])]
    IN done(Cart_write(m.pages, address, data),
            Ram_write(m.storage, address, data))

\* CpuMemoryBus::write: the byte is latched, then offered to the cartridge
\* and to the RAM
CpuMemoryBus_write(m, address, data) ==
    LET done(c, r) ==
          [m EXCEPT !.last_exchanged_value = data,
                    !.pages = c.pages,
                    !.storage = r.storage,
                    !.log = Append(@, [op |-> "write", address |-> address,
                                       data |-> data,
                                       asked |-> <<"cart", "ram">>,
                                       claimed |-> r.claimed
                                                   \/ (c.claimed \/ FALSE)])]
    IN done(Cart_write(m.pages, address, data),
            Ram_write(m.storage, address, data))

---------------------------------------------------------------------------
(* Cpu helpers.                                                            *)

\* Cpu::read_instr_byte
read_instr_byte(m) ==
    LET advance(m1) ==
          [m1 EXCEPT !.prog_counter = wrapping_add16(m.prog_counter, 1)]
    IN advance(CpuMemoryBus_read(m, m.prog_counter))

\* Cpu::push_stack decrementing the stack pointer before the write
push_stack_DecrementFirst(m, data) ==
    LET write(m1) ==
          CpuMemoryBus_write(m1, BitOr(m1.stack_pointer, \h0100), data)
    IN write([m EXCEPT !.stack_pointer = wrapping_sub8(m.stack_pointer, 1)])

\* Cpu::push_stack
push_stack(m, data) ==
    LET decrement(m1) ==
          [m1 EXCEPT !.stack_pointer = wrapping_sub8(m.stack_pointer, 1)]
    IN decrement(CpuMemoryBus_write(m, BitOr(m.stack_pointer, \h0100), data))

\* the stack pointer increment between the reads of a pull
IncrementSP(m) ==
    [m EXCEPT !.stack_pointer = wrapping_add8(m.stack_pointer, 1)]

\* a bus read at the stack pointer's address
ReadAtSP(m) == CpuMemoryBus_read(m, BitOr(m.stack_pointer, \h0100))

\* Cpu::pull_stack; data is the byte returned
pull_stack(m) == ReadAtSP(IncrementSP(ReadAtSP(m)))

\* Cpu::pull_stack_address; address is the 16-bit address returned
pull_stack_address(m) ==
    LET high(m3) == [m3 EXCEPT !.address = BitOr(m3.data * 256, m3.low_addr)]
        low(m2) == [m2 EXCEPT !.low_addr = m2.data]
    IN high(ReadAtSP(IncrementSP(low(ReadAtSP(IncrementSP(ReadAtSP(m)))))))

\* the idiom taking NEGATIVE from value > 0x80
SetZN_Above(m, value) ==
    [m EXCEPT !.status_flags =
        FlagSet(FlagSet(m.status_flags, ZERO, value = 0),
                NEGATIVE, value > \h80)]

\* the two-line idiom that sets ZERO and NEGATIVE from a value
SetZN(m, value) ==
    [m EXCEPT !.status_flags =
        FlagSet(FlagSet(m.status_flags, ZERO, value = 0),
                NEGATIVE, BitAnd(value, \h80) # 0)]

\* the dummy read of the implied modes: bus.read(self.prog_counter)
DummyRead_Advancing(m) == read_instr_byte(m)

DummyRead(m) == CpuMemoryBus_read(m, m.prog_counter)

\* the operand idiom of the absolute modes: low byte, then high byte;
\* address is the 16-bit address
read_instr_address(m) ==
    LET high(m2) == [m2 EXCEPT !.address = BitOr(m2.low_addr, m2.data * 256)]
        low(m1) == [m1 EXCEPT !.low_addr = m1.data]
    IN high(read_instr_byte(low(read_instr_byte(m))))

\* the operand idiom of the zero-page modes; address is the operand byte
read_instr_zp_address(m) ==
    LET keep(m1) == [m1 EXCEPT !.address = m1.data]
    IN keep(read_instr_byte(m))

\* the target idiom of the relative branches: prog_counter.overflowing_add(
\*   u16::from(operand) & if operand & 0x80 != 0 { 0xFF00 } else { 0x0000 })
BranchTarget(pc, operand) ==
    LET sum(mask) == pc + BitAnd(operand, mask)
        result(s) == [new_pc |-> s % 65536, wrapped |-> s > 65535]
    IN result(sum(IF BitAnd(operand, \h80) # 0 THEN \hFF00 ELSE \h0000))

\* the taken part of a relative branch
BranchTaken(m, operand) ==
    LET go(t) ==
          IF t.wrapped
          THEN CpuMemoryBus_read([m EXCEPT !.prog_counter = t.new_pc,
                                           !.branch = "taken"], t.new_pc)
          ELSE [m EXCEPT !.prog_counter = t.new_pc, !.branch = "taken"]
    IN go(BranchTarget(m.prog_counter, operand))

\* the early return of a relative branch
BranchNotTaken(m) == [m EXCEPT !.branch = "not taken"]

---------------------------------------------------------------------------
(* The arms of Cpu::run_instr, in source order.  Each takes the machine    *)
(* as it is after the opcode fetch.                                        *)

\* 0x08
PHP_Implied(m) ==
    LET push(m1) == push_stack(m1, m1.status_flags)
    IN push(DummyRead(m))

\* 0x8E
STX_Absolute(m) ==
    LET store(m1) == CpuMemoryBus_write(m1, m1.address, m1.x_reg)
    IN store(read_instr_address(m))

\* 0x8C
STY_Absolute(m) ==
    LET store(m1) == CpuMemoryBus_write(m1, m1.address, m1.y_reg)
    IN store(read_instr_address(m))

\* STA Absolute storing the X register (the arm copied from STX)
STA_Absolute_StoresX(m) ==
    LET store(m1) == CpuMemoryBus_write(m1, m1.address, m1.x_reg)
    IN store(read_instr_address(m))

\* 0x8D
STA_Absolute(m) ==
    LET store(m1) == CpuMemoryBus_write(m1, m1.address, m1.a_reg)
    IN store(read_instr_address(m))

\* 0x68
PLA_Implied(m) ==
    LET load(m1) == SetZN([m1 EXCEPT !.a_reg = m1.data], m1.data)
    IN load(pull_stack(DummyRead(m)))

\* 0xBA
TSX_Implied(m) ==
    LET copy(m1) == SetZN([m1 EXCEPT !.x_reg = m1.stack_pointer],
                          m1.stack_pointer)
    IN copy(DummyRead(m))

\* 0xAD
LDA_Absolute(m) ==
    LET load(m2) == SetZN([m2 EXCEPT !.a_reg = m2.data], m2.data)
        read(m1) == CpuMemoryBus_read(m1, m1.address)
    IN load(read(read_instr_address(m)))

\* 0x4C
JMP_Absolute(m) ==
    LET jump(m1) == [m1 EXCEPT !.prog_counter = m1.address]
    IN jump(read_instr_address(m))

\* 0xA0
LDY_Immediate(m) ==
    LET load(m1) == SetZN([m1 EXCEPT !.y_reg = m1.data], m1.data)
    IN load(read_instr_byte(m))

\* 0xA2
LDX_Immediate(m) ==
    LET load(m1) == SetZN([m1 EXCEPT !.x_reg = m1.data], m1.data)
    IN load(read_instr_byte(m))

\* 0xA9
LDA_Immediate(m) ==
    LET load(m1) == SetZN([m1 EXCEPT !.a_reg = m1.data], m1.data)
    IN load(read_instr_byte(m))

\* 0x78
SEI_Implied(m) ==
    LET set(m1) ==
          [m1 EXCEPT !.status_flags = FlagSet(@, INTERRUPT_DISABLE, TRUE)]
    IN set(DummyRead(m))

\* 0xD8
CLD_Implied(m) ==
    LET clear(m1) == [m1 EXCEPT !.status_flags = FlagSet(@, DECIMAL, FALSE)]
    IN clear(DummyRead(m))

\* 0x9A
TXS_Implied(m) ==
    LET copy(m1) == [m1 EXCEPT !.stack_pointer = m1.x_reg]
    IN copy(DummyRead(m))

\* JSR pushing the low byte of the return address before the high byte
JSR_Absolute_LowFirst(m) ==
    LET jump(m5) ==
          [m5 EXCEPT !.prog_counter = BitOr(m5.low_addr, m5.data * 256)]
        push_high(m4) == push_stack(m4, m4.prog_counter \div 256)
        push_low(m3) == push_stack(m3, BitAnd(m3.prog_counter, \hFF))
        low(m1) == [m1 EXCEPT !.low_addr = m1.data]
    IN jump(read_instr_byte(push_high(push_low(
              ReadAtSP(low(read_instr_byte(m)))))))

\* 0x20
JSR_Absolute(m) ==
    LET jump(m5) ==
          [m5 EXCEPT !.prog_counter = BitOr(m5.low_addr, m5.data * 256)]
        push_low(m4) == push_stack(m4, BitAnd(m4.prog_counter, \hFF))
        push_high(m3) == push_stack(m3, m3.prog_counter \div 256)
        low(m1) == [m1 EXCEPT !.low_addr = m1.data]
    IN jump(read_instr_byte(push_low(push_high(
              ReadAtSP(low(read_instr_byte(m)))))))

\* 0x84
STY_ZeroPage(m) ==
    LET store(m1) == CpuMemoryBus_write(m1, m1.address, m1.y_reg)
    IN store(read_instr_zp_address(m))

\* 0x86
STX_ZeroPage(m) ==
    LET store(m1) == CpuMemoryBus_write(m1, m1.address, m1.x_reg)
    IN store(read_instr_zp_address(m))

\* 0x91; address holds indirect_address_pointer, then the final address
STA_IndirectY_NoZeroPageWrap(m) ==
    LET store(m4) == CpuMemoryBus_write(m4, m4.address, m4.a_reg)
        dummy(m4) == CpuMemoryBus_read(m4, m4.address)
        index(m3) == [m3 EXCEPT !.address = wrapping_add16(BitOr(m3.low_addr, m3.data * 256), m3.y_reg)]
        high(m2) == CpuMemoryBus_read([m2 EXCEPT !.low_addr = m2.data], m2.address + 1)
        low(m1) == CpuMemoryBus_read(m1, m1.address)
    IN store(dummy(index(high(low(read_instr_zp_address(m))))))

STA_IndirectY(m) ==
    LET store(m4) == CpuMemoryBus_write(m4, m4.address, m4.a_reg)
        dummy(m4) == CpuMemoryBus_read(m4, m4.address)
        index(m3) ==
          [m3 EXCEPT !.address =
              wrapping_add16(BitOr(m3.low_addr, m3.data * 256), m3.y_reg)]
        high(m2) == CpuMemoryBus_read([m2 EXCEPT !.low_addr = m2.data],
                                      wrapping_add8(m2.address, 1))
        low(m1) == CpuMemoryBus_read(m1, m1.address)
    IN store(dummy(index(high(low(read_instr_zp_address(m))))))

\* 0xC8
INY_Implied(m) ==
    LET inc(m1) == SetZN([m1 EXCEPT !.y_reg = wrapping_add8(m1.y_reg, 1)],
                         wrapping_add8(m1.y_reg, 1))
    IN inc(DummyRead(m))

\* 0xE8
INX_Implied(m) ==
    LET inc(m1) == SetZN([m1 EXCEPT !.x_reg = wrapping_add8(m1.x_reg, 1)],
                         wrapping_add8(m1.x_reg, 1))
    IN inc(DummyRead(m))

\* 0xD0
BNE_Relative(m) ==
    LET branch(m1) == IF FlagHas(m1.status_flags, ZERO)
                      THEN BranchNotTaken(m1)
                      ELSE BranchTaken(m1, m1.data)
    IN branch(read_instr_byte(m))

\* INC Zero Page without the write-back of the unchanged byte
INC_ZeroPage_NoWriteBack(m) ==
    LET flags(m4) == SetZN(m4, wrapping_add8(m4.data, 1))
        write(m3) == CpuMemoryBus_write(m3, m3.address,
                                        wrapping_add8(m3.data, 1))
        read(m1) == CpuMemoryBus_read(m1, m1.address)
    IN flags(write(read(read_instr_zp_address(m))))

\* 0xE6; data is the byte read, the new byte is data + 1
INC_ZeroPage(m) ==
    LET flags(m4) == SetZN(m4, wrapping_add8(m4.data, 1))
        write(m3) == CpuMemoryBus_write(m3, m3.address,
                                        wrapping_add8(m3.data, 1))
        back(m2) == CpuMemoryBus_write(m2, m2.address, m2.data)
        read(m1) == CpuMemoryBus_read(m1, m1.address)
    IN flags(write(back(read(read_instr_zp_address(m)))))

\* 0xAA
TAX_Implied(m) ==
    LET copy(m1) == SetZN([m1 EXCEPT !.x_reg = m1.a_reg], m1.a_reg)
    IN copy(DummyRead(m))

\* 0x95
STA_ZeroPageX(m) ==
    LET store(m2) == CpuMemoryBus_write(m2, wrapping_add8(m2.address, m2.x_reg),
                                        m2.a_reg)
        dummy(m1) == CpuMemoryBus_read(m1, m1.address)
    IN store(dummy(read_instr_zp_address(m)))

\* 0xCA
DEX_Implied(m) ==
    LET dec(m1) == SetZN([m1 EXCEPT !.x_reg = wrapping_sub8(m1.x_reg, 1)],
                         wrapping_sub8(m1.x_reg, 1))
    IN dec(DummyRead(m))

\* 0x9D
STA_AbsoluteX(m) ==
    LET store(m2) == CpuMemoryBus_write(m2,
                                        wrapping_add16(m2.address, m2.x_reg),
                                        m2.a_reg)
        dummy(m1) == CpuMemoryBus_read(m1, wrapping_add16(m1.address, m1.x_reg))
    IN store(dummy(read_instr_address(m)))

\* 0x60
RTS_Implied_NoIncrement(m) ==
    LET jump(m2) == [m2 EXCEPT !.prog_counter = m2.address]
    IN jump(pull_stack_address(DummyRead(m)))

RTS_Implied(m) ==
    LET jump(m2) == [m2 EXCEPT !.prog_counter = m2.address]
    IN read_instr_byte(jump(pull_stack_address(DummyRead(m))))

\* 0x2C
BIT_Absolute(m) ==
    LET test(m2) ==
          [m2 EXCEPT !.status_flags =
              FlagSet(FlagSet(FlagSet(@, ZERO, BitAnd(m2.data, m2.a_reg) = 0),
                              NEGATIVE, BitAnd(m2.data, \h80) # 0),
                      OVERFLOW, BitAnd(m2.data, \h40) # 0)]
        read(m1) == CpuMemoryBus_read(m1, m1.address)
    IN test(read(read_instr_address(m)))

\* 0x30
BMI_Relative(m) ==
    LET branch(m1) == IF ~FlagHas(m1.status_flags, NEGATIVE)
                      THEN BranchNotTaken(m1)
                      ELSE BranchTaken(m1, m1.data)
    IN branch(read_instr_byte(m))

\* 0x88
DEY_Implied(m) ==
    LET dec(m1) == SetZN([m1 EXCEPT !.y_reg = wrapping_sub8(m1.y_reg, 1)],
                         wrapping_sub8(m1.y_reg, 1))
    IN dec(DummyRead(m))

\* 0x10
BPL_Relative(m) ==
    LET branch(m1) == IF FlagHas(m1.status_flags, NEGATIVE)
                      THEN BranchNotTaken(m1)
                      ELSE BranchTaken(m1, m1.data)
    IN branch(read_instr_byte(m))

\* 0x98
TYA_Implied(m) ==
    LET copy(m1) == SetZN([m1 EXCEPT !.a_reg = m1.y_reg], m1.y_reg)
    IN copy(DummyRead(m))

\* 0x0D
ORA_Absolute(m) ==
    LET or(m2) == SetZN([m2 EXCEPT !.a_reg = BitOr(m2.a_reg, m2.data)],
                        BitOr(m2.a_reg, m2.data))
        read(m1) == CpuMemoryBus_read(m1, m1.address)
    IN or(read(read_instr_address(m)))

\* 0x85
STA_ZeroPage(m) ==
    LET store(m1) == CpuMemoryBus_write(m1, m1.address, m1.a_reg)
    IN store(read_instr_zp_address(m))

\* 0x48
PHA_Implied(m) ==
    LET push(m1) == push_stack(m1, m1.a_reg)
    IN push(DummyRead(m))

\* 0xA8
TAY_Implied(m) ==
    LET copy(m1) == SetZN([m1 EXCEPT !.y_reg = m1.a_reg], m1.a_reg)
    IN copy(DummyRead(m))

\* PLP leaving B_FLAG and IGNORED as they are
PLP_Implied_KeepsB(m) ==
    LET load(m2) ==
          [m2 EXCEPT !.status_flags =
              BitOr(BitAnd(m2.data, 255 - (B_FLAG + IGNORED)),
                    BitAnd(m2.status_flags, B_FLAG + IGNORED))]
    IN load(pull_stack(DummyRead(m)))

\* 0x28
PLP_Implied(m) ==
    LET load(m2) == [m2 EXCEPT !.status_flags = from_bits_truncate(m2.data)]
    IN load(pull_stack(DummyRead(m)))

\* CPY Immediate left without an arm
CPY_Immediate_Todo(m) == [m EXCEPT !.halted = TRUE]

\* CMP Immediate taking NEGATIVE from bit 7 of the difference
CMP_Immediate_NegativeOfDifference(m) ==
    LET compare(m1) ==
          [m1 EXCEPT !.status_flags =
              FlagSet(FlagSet(FlagSet(@, CARRY, m1.a_reg >= m1.data),
                              ZERO, m1.a_reg = m1.data),
                      NEGATIVE,
                      BitAnd(wrapping_sub8(m1.a_reg, m1.data), \h80) # 0)]
    IN compare(read_instr_byte(m))

\* 0xC9
CMP_Immediate(m) ==
    LET compare(m1) ==
          [m1 EXCEPT !.status_flags =
              FlagSet(FlagSet(FlagSet(@, CARRY, m1.a_reg >= m1.data),
                              ZERO, m1.a_reg = m1.data),
                      NEGATIVE, BitAnd(m1.a_reg, \h80) # 0)]
    IN compare(read_instr_byte(m))

\* 0xF0
BEQ_Relative(m) ==
    LET branch(m1) == IF ~FlagHas(m1.status_flags, ZERO)
                      THEN BranchNotTaken(m1)
                      ELSE BranchTaken(m1, m1.data)
    IN branch(read_instr_byte(m))

\* BIT Zero Page taking NEGATIVE and OVERFLOW from memory AND A
BIT_ZeroPage_FlagsOfAnd(m) ==
    LET test(m2) ==
          [m2 EXCEPT !.status_flags =
              FlagSet(FlagSet(FlagSet(@, ZERO, BitAnd(m2.data, m2.a_reg) = 0),
                              NEGATIVE,
                              BitAnd(BitAnd(m2.data, m2.a_reg), \h80) # 0),
                      OVERFLOW, BitAnd(BitAnd(m2.data, m2.a_reg), \h40) # 0)]
        read(m1) == CpuMemoryBus_read(m1, m1.address)
    IN test(read(read_instr_zp_address(m)))

\* 0x24
BIT_ZeroPage(m) ==
    LET test(m2) ==
          [m2 EXCEPT !.status_flags =
              FlagSet(FlagSet(FlagSet(@, ZERO, BitAnd(m2.data, m2.a_reg) = 0),
                              NEGATIVE, BitAnd(m2.data, \h80) # 0),
                      OVERFLOW, BitAnd(m2.data, \h40) # 0)]
        read(m1) == CpuMemoryBus_read(m1, m1.address)
    IN test(read(read_instr_zp_address(m)))

\* 0x45
EOR_ZeroPage(m) ==
    LET xor(m2) == SetZN([m2 EXCEPT !.a_reg = BitXor(m2.a_reg, m2.data)],
                         BitXor(m2.a_reg, m2.data))
        read(m1) == CpuMemoryBus_read(m1, m1.address)
    IN xor(read(read_instr_zp_address(m)))

\* 0x46; data is the byte read, the new byte is data >> 1
LSR_ZeroPage(m) ==
    LET flags(m5) == SetZN(m5, m5.data \div 2)
        write(m4) == CpuMemoryBus_write(m4, m4.address, m4.data \div 2)
        carry(m3) ==
          [m3 EXCEPT !.status_flags = FlagSet(@, CARRY, BitAnd(m3.data, 1) # 0)]
        back(m2) == CpuMemoryBus_write(m2, m2.address, m2.data)
        read(m1) == CpuMemoryBus_read(m1, m1.address)
    IN flags(write(carry(back(read(read_instr_zp_address(m))))))

\* the new byte of ROR fed from the carry the shift produces
RorValue_NewCarry(data, flags) ==
    BitOr(data \div 2, IF BitAnd(data, 1) = 0 THEN 0 ELSE \h80)

\* the new byte of ROR: data >> 1 | (0b1000_0000 if CARRY is set)
RorValue(data, flags) ==
    BitOr(data \div 2, IF ~FlagHas(flags, CARRY) THEN 0 ELSE \h80)

\* 0x66; data is the byte read
ROR_ZeroPage(m) ==
    LET flags(m5) == SetZN(m5, m5.new_data)
        carry(m4) ==
          [m4 EXCEPT !.status_flags = FlagSet(@, CARRY, BitAnd(m4.data, 1) # 0)]
        write(m3) == CpuMemoryBus_write(m3, m3.address, m3.new_data)
        rotate(m3) == [m3 EXCEPT !.new_data = RorValue(m3.data, m3.status_flags)]
        back(m2) == CpuMemoryBus_write(m2, m2.address, m2.data)
        read(m1) == CpuMemoryBus_read(m1, m1.address)
    IN flags(carry(write(rotate(back(read(read_instr_zp_address(m)))))))

\* 0x6A
ROR_Accumulator(m) ==
    LET rotate(m1) ==
          SetZN([m1 EXCEPT !.a_reg = RorValue(m1.a_reg, m1.status_flags),
                           !.status_flags =
                               FlagSet(@, CARRY, BitAnd(m1.a_reg, 1) # 0)],
                RorValue(m1.a_reg, m1.status_flags))
    IN rotate(DummyRead(m))

\* 0x90
BCC_Relative(m) ==
    LET branch(m1) == IF ~FlagHas(m1.status_flags, CARRY)
                      THEN BranchNotTaken(m1)
                      ELSE BranchTaken(m1, m1.data)
    IN branch(read_instr_byte(m))

\* 0xA5
LDA_ZeroPage(m) ==
    LET load(m2) == SetZN([m2 EXCEPT !.a_reg = m2.data], m2.data)
        read(m1) == CpuMemoryBus_read(m1, m1.address)
    IN load(read(read_instr_zp_address(m)))

\* 0x49
EOR_Immediate(m) ==
    LET xor(m1) == SetZN([m1 EXCEPT !.a_reg = BitXor(m1.a_reg, m1.data)],
                         BitXor(m1.a_reg, m1.data))
    IN xor(read_instr_byte(m))

\* 0xA6
LDX_ZeroPage(m) ==
    LET load(m2) == SetZN([m2 EXCEPT !.x_reg = m2.data], m2.data)
        read(m1) == CpuMemoryBus_read(m1, m1.address)
    IN load(read(read_instr_zp_address(m)))

\* 0xAC
LDY_Absolute(m) ==
    LET load(m2) == SetZN([m2 EXCEPT !.y_reg = m2.data], m2.data)
        read(m1) == CpuMemoryBus_read(m1, m1.address)
    IN load(read(read_instr_address(m)))

\* 0xA4
LDY_ZeroPage(m) ==
    LET load(m2) == SetZN([m2 EXCEPT !.y_reg = m2.data], m2.data)
        read(m1) == CpuMemoryBus_read(m1, m1.address)
    IN load(read(read_instr_zp_address(m)))

\* 0xC0
CPY_Immediate(m) ==
    LET compare(m1) ==
          [m1 EXCEPT !.status_flags =
              FlagSet(FlagSet(FlagSet(@, CARRY, m1.y_reg >= m1.data),
                              ZERO, m1.y_reg = m1.data),
                      NEGATIVE, BitAnd(m1.y_reg, \h80) # 0)]
    IN compare(read_instr_byte(m))

\* a default arm that skips the unknown opcode
Unimplemented_Skips(m) == m

\* the default arm: todo!("implement opcode 0x{:x}", opcode)
Unimplemented(m) == [m EXCEPT !.halted = TRUE]

\* the opcode bytes that have an arm in run_instr
ImplementedOpcodes ==
    {\h08, \h8E, \h8C, \h8D, \h68, \hBA, \hAD, \h4C, \hA0, \hA2, \hA9, \h78,
     \hD8, \h9A, \h20, \h84, \h86, \h91, \hC8, \hE8, \hD0, \hE6, \hAA, \h95,
     \hCA, \h9D, \h60, \h2C, \h30, \h88, \h10, \h98, \h0D, \h85, \h48, \hA8,
     \h28, \hC9, \hF0, \h24, \h45, \h46, \h66, \h6A, \h90, \hA5, \h49, \hA6,
     \hAC, \hA4, \hC0}

\* the match of run_instr
Dispatch(m) ==
    CASE m.opcode = \h08 -> PHP_Implied(m)
      [] m.opcode = \h8E -> STX_Absolute(m)
      [] m.opcode = \h8C -> STY_Absolute(m)
      [] m.opcode = \h8D -> STA_Absolute(m)
      [] m.opcode = \h68 -> PLA_Implied(m)
      [] m.opcode = \hBA -> TSX_Implied(m)
      [] m.opcode = \hAD -> LDA_Absolute(m)
      [] m.opcode = \h4C -> JMP_Absolute(m)
      [] m.opcode = \hA0 -> LDY_Immediate(m)
      [] m.opcode = \hA2 -> LDX_Immediate(m)
      [] m.opcode = \hA9 -> LDA_Immediate(m)
      [] m.opcode = \h78 -> SEI_Implied(m)
      [] m.opcode = \hD8 -> CLD_Implied(m)
      [] m.opcode = \h9A -> TXS_Implied(m)
      [] m.opcode = \h20 -> JSR_Absolute(m)
      [] m.opcode = \h84 -> STY_ZeroPage(m)
      [] m.opcode = \h86 -> STX_ZeroPage(m)
      [] m.opcode = \h91 -> STA_IndirectY(m)
      [] m.opcode = \hC8 -> INY_Implied(m)
      [] m.opcode = \hE8 -> INX_Implied(m)
      [] m.opcode = \hD0 -> BNE_Relative(m)
      [] m.opcode = \hE6 -> INC_ZeroPage(m)
      [] m.opcode = \hAA -> TAX_Implied(m)
      [] m.opcode = \h95 -> STA_ZeroPageX(m)
      [] m.opcode = \hCA -> DEX_Implied(m)
      [] m.opcode = \h9D -> STA_AbsoluteX(m)
      [] m.opcode = \h60 -> RTS_Implied(m)
      [] m.opcode = \h2C -> BIT_Absolute(m)
      [] m.opcode = \h30 -> BMI_Relative(m)
      [] m.opcode = \h88 -> DEY_Implied(m)
      [] m.opcode = \h10 -> BPL_Relative(m)
      [] m.opcode = \h98 -> TYA_Implied(m)
      [] m.opcode = \h0D -> ORA_Absolute(m)
      [] m.opcode = \h85 -> STA_ZeroPage(m)
      [] m.opcode = \h48 -> PHA_Implied(m)
      [] m.opcode = \hA8 -> TAY_Implied(m)
      [] m.opcode = \h28 -> PLP_Implied(m)
      [] m.opcode = \hC9 -> CMP_Immediate(m)
      [] m.opcode = \hF0 -> BEQ_Relative(m)
      [] m.opcode = \h24 -> BIT_ZeroPage(m)
      [] m.opcode = \h45 -> EOR_ZeroPage(m)
      [] m.opcode = \h46 -> LSR_ZeroPage(m)
      [] m.opcode = \h66 -> ROR_ZeroPage(m)
      [] m.opcode = \h6A -> ROR_Accumulator(m)
      [] m.opcode = \h90 -> BCC_Relative(m)
      [] m.opcode = \hA5 -> LDA_ZeroPage(m)
      [] m.opcode = \h49 -> EOR_Immediate(m)
      [] m.opcode = \hA6 -> LDX_ZeroPage(m)
      [] m.opcode = \hAC -> LDY_Absolute(m)
      [] m.opcode = \hA4 -> LDY_ZeroPage(m)
      [] m.opcode = \hC0 -> CPY_Immediate(m)
      [] OTHER -> Unimplemented(m)

\* Cpu::run_instr
run_instr(m) ==
    LET decode(m1) == Dispatch([m1 EXCEPT !.opcode = m1.data])
    IN decode(read_instr_byte(m))

\* Cpu::new with the flags 0x24, B clear
Cpu_new_BClear ==
    [a_reg |-> 0, x_reg |-> 0, y_reg |-> 0, prog_counter |-> 0,
     stack_pointer |-> \hFF, status_flags |-> \h24]

\* Cpu::new
Cpu_new ==
    [a_reg |-> 0, x_reg |-> 0, y_reg |-> 0, prog_counter |-> 0,
     stack_pointer |-> \hFF, status_flags |-> \h34]

\* Cpu::reset; Rust evaluates the operands of | left to right, so the
\* read of 0xfffd comes first
Cpu_reset(m) ==
    LET vector(m3) == [m3 EXCEPT !.prog_counter = BitOr(m3.address, m3.data)]
        low(m2) == CpuMemoryBus_read([m2 EXCEPT !.address = m2.data * 256],
                                     \hFFFC)
        high(m1) == CpuMemoryBus_read(m1, \hFFFD)
    IN vector(low(high(
         [m EXCEPT !.stack_pointer = wrapping_sub8(m.stack_pointer, 3),
                   !.status_flags = BitOr(m.status_flags, INTERRUPT_DISABLE)])))

---------------------------------------------------------------------------
(* Cartridge images.  main cuts the PRG data into ROM_PAGE_SIZE banks in   *)
(* file order; the images followed here hold a program at address start    *)
(* of the last bank, the reset vector pointing to it, and a fill byte      *)
(* everywhere else.  Earlier banks are filled with a different byte.       *)

Lo(w) == w % 256

Hi(w) == w \div 256

EmptyCells == [i \in {} |-> 0]

ProgramBank(fill, start, prog) ==
    LET base == start - \hC000
        code == {base + k - 1 : k \in 1..Len(prog)}
    IN [fill |-> fill,
        cells |-> [i \in code \cup {\h3FFC, \h3FFD} |->
                     IF i \in code THEN prog[i - base + 1]
                     ELSE IF i = \h3FFC THEN Lo(start) ELSE Hi(start)]]

OtherBank == [fill |-> \hA9, cells |-> EmptyCells]

Image(n, fill, start, prog) ==
    [k \in 1..n |-> IF k = n THEN ProgramBank(fill, start, prog) ELSE OtherBank]

\* LDA #0x42; STA 0x0010; JMP start
LoopProgram(start) ==
    <<\hA9, \h42, \h8D, \h10, \h00, \h4C, Lo(start), Hi(start)>>

LoopStarts == {\hC000, \hC0FD, \hFFF4, \hFFF6}

\* instructions that put the flags in the state a branch needs
Setups == {<< >>, <<\hA9, \h00>>, <<\hA9, \h80>>, <<\hC9, \h00>>}

BranchOpcodes == {\hD0, \hF0, \h10, \h30, \h90}

BranchOffsets == {\h00, \h02, \h7F, \h80, \hFD, \hFE}

BranchStarts == {\hC000, \hC0FC, \hC0FE}

OperandLows == {\h10, \hFD}

OperandHighs == {\h00, \hC0}

ImageFills == {\h02}

LoopImages ==
    {Image(n, f, s, LoopProgram(s)) :
        n \in 1..MaxBanks, f \in ImageFills, s \in LoopStarts}

OpcodeImages ==
    {Image(n, f, \hC000, <<op, b1, b2>>) :
        n \in 1..MaxBanks, f \in ImageFills, op \in Byte,
        b1 \in OperandLows, b2 \in OperandHighs}

BranchImages ==
    {Image(1, f, s, su \o <<op, d>>) :
        f \in ImageFills, s \in BranchStarts, su \in Setups,
        op \in BranchOpcodes, d \in BranchOffsets}

Images == {<< >>} \cup LoopImages \cup OpcodeImages \cup BranchImages

\* the images of the component-level runs
BusImages ==
    {<< >>} \cup
    UNION {{Image(1, f, \hC000, <<\h8D, \h10, \hC0>>),
            Image(MaxBanks, f, \hFFF6, LoopProgram(\hFFF6))} : f \in ImageFills}

BusAddresses == {\h0010, \h0810, \h1FFF, \h2000, \hBFFF, \hC010, \hFFFF}

BusData == {\h00, \hA5}

---------------------------------------------------------------------------
(* Straight-line programs.  Each is placed at 0xC000 of a one-bank image;  *)
(* the byte after it is the fill byte, which has no arm in run_instr.      *)

Program(prog) == Image(1, \h02, \hC000, prog)

\* the number of values the 8-bit stack pointer takes
StackSize == 256

\* the byte pushed by the i-th push of a stack program
PushValue(i) == (i * 7 + 3) % 256

\* LDX #s; TXS; n times (LDA #PushValue(i); PHA); n times PLA
StackProgram(s, n) ==
    [k \in 1..(4 * n + 3) |->
        IF k = 1 THEN \hA2
        ELSE IF k = 2 THEN s
        ELSE IF k = 3 THEN \h9A
        ELSE IF k > 3 * n + 3 THEN \h68
        ELSE IF k % 3 = 1 THEN \hA9
        ELSE IF k % 3 = 2 THEN PushValue((k - 2) \div 3)
        ELSE \h48]

StackStarts == {\h01, \h00, \hFF, \h80}

StackCounts == {1, 2, MaxPushes}

StackImages ==
    {Program(StackProgram(s, n)) : s \in StackStarts, n \in StackCounts}
    \cup {Program(StackProgram(s, StackSize)) : s \in {\h01, \hFF}}

\* LDX #s; TXS; LDA #f; PHA; PLP puts f in the flags with SP = s; then
\* PHP; LDA #k; PLP, the LDA changing ZERO
StatusProgram(s, f) ==
    <<\hA2, s, \h9A, \hA9, f, \h48, \h28, \h08,
      \hA9, IF FlagHas(f, ZERO) THEN \h01 ELSE \h00, \h28>>

\* LDX #x; LDA #0x5A; STA z,X and LDX #x; LDA #0x5A; STA base,X
IndexedStorePrograms(x) ==
    {<<\hA2, x, \hA9, \h5A, \h95, z>> : z \in {\h10, \hFF}}
    \cup {<<\hA2, x, \hA9, \h5A, \h9D, Lo(base), Hi(base)>> :
            base \in {\h0310, \h03FF, \hFFFF}}

\* LDA #lo; STA z; LDA #hi; STA z+1 (in the zero page); LDY #y; LDA #0x5A;
\* STA (z),Y with the base address hi:lo
IndirectStorePrograms(y) ==
    {<<\hA9, Lo(base), \h85, z, \hA9, Hi(base), \h85, wrapping_add8(z, 1),
       \hA0, y, \hA9, \h5A, \h91, z>> :
        z \in {\h10, \hFF}, base \in {\h0310, \h03FF, \h20F0, \hFFFF}}

\* LDX #s; TXS; JSR target, placed at start
JsrImages ==
    {Image(1, \h02, start, <<\hA2, sp, \h9A, \h20, Lo(target), Hi(target)>>) :
        start \in {\hC000, \hC0FB}, sp \in StackStarts,
        target \in {\hC123, \h0010}}

\* LDX #s; TXS; JSR sub; (fill); sub: body; RTS, placed at 0xC000 and at
\* 0xC0FB, the body empty or LDA #0x5A; PHA; PLA; and, placed at 0xFFF2,
\* LDA #0x60; STA 0x10; LDX #s; TXS; JMP 0xFFFE; (reset vector);
\* 0xFFFE: JSR 0x0010, whose third byte is the RAM cell 0x0000 and whose
\* subroutine is the RTS the program stored at 0x0010
ReturnImages(s) ==
    LET call(start, body) ==
          <<\hA2, s, \h9A, \h20, Lo(start + 7), Hi(start + 7), \h02>>
          \o body \o <<\h60>>
    IN {Image(1, \h02, start, call(start, body)) :
           start \in {\hC000, \hC0FB},
           body \in {<< >>, <<\hA9, \h5A, \h48, \h68>>}}
       \cup {Image(1, \h02, \hFFF2,
                  <<\hA9, \h60, \h85, \h10, \hA2, s, \h9A, \h4C, \hFE, \hFF,
                    \hF2, \hFF, \h20, \h10>>)}

\* one instruction of every implemented opcode, operand bytes 0x10 0x03,
\* run with the flags of power-on and reset, or after LDA #f; PHA; PLP,
\* with the flags f
FlagPrograms(op) ==
    {prefix \o <<op, \h10, \h03>> :
        prefix \in {<< >>} \cup {<<\hA9, f, \h48, \h28>> :
                                   f \in {\h00, \hFF, \h3C, \hC3}}}

\* one instruction of every implemented opcode placed at the end of the
\* ROM, at 0xFFFE (operand byte 0x10) and at 0xFFFF, the bytes that follow
\* being the RAM cells from 0x0000
EdgeImages(op) ==
    {Image(1, \h02, \hFFFE, <<op, \h10>>), Image(1, \h02, \hFFFF, <<op>>)}

\* LDA #v; LDY #v; then LDA or LDY from the absolute address hi:lo
OpenBusPrograms(hi) ==
    {<<\hA9, v, \hA0, v, op, lo, hi>> :
        v \in {\h00, \h80}, op \in {\hAD, \hAC}, lo \in {\h00, \h34, \hFF}}

\* a byte whose ZERO / NEGATIVE flags differ from those of v
Other(v) == IF v = 0 THEN \h80 ELSE \h00

\* LDY #1; CPY #0 sets CARRY, LDY #1; CPY #2 clears it; both clear ZERO and
\* NEGATIVE
SetCarry(c) == <<\hA0, \h01, \hC0, IF c THEN \h00 ELSE \h02>>

\* programs that end in a load or a pull of v
LoadPrograms(v) ==
    {<<\hA9, v>>, <<\hA2, v>>, <<\hA0, v>>,
     <<\hA9, v, \h48, \hA9, Other(v), \h68>>}
    \cup {<<\hA9, v, \h85, \h10, \hA9, Other(v), op, \h10>> :
            op \in {\hA5, \hA6, \hA4}}
    \cup {<<\hA9, v, \h8D, \h10, \h03, \hA9, Other(v), op, \h10, \h03>> :
            op \in {\hAD, \hAC}}

\* programs that end in a register transfer of v: TAX, TAY, TYA, TSX
TransferPrograms(v) ==
    {<<\hA9, v, \hA0, Other(v), \hAA>>,
     <<\hA9, v, \hA2, Other(v), \hA8>>,
     <<\hA0, v, \hA9, Other(v), \h98>>,
     <<\hA2, v, \h9A, \hA9, Other(v), \hBA>>}

\* programs that end in an increment or decrement of v: INX, DEX, INY, DEY,
\* INC 0x10
StepPrograms(v) ==
    {<<\hA2, v, \hA9, Other(wrapping_add8(v, 1)), \hE8>>,
     <<\hA2, v, \hA9, Other(wrapping_sub8(v, 1)), \hCA>>,
     <<\hA0, v, \hA9, Other(wrapping_add8(v, 1)), \hC8>>,
     <<\hA0, v, \hA9, Other(wrapping_sub8(v, 1)), \h88>>,
     <<\hA9, v, \h85, \h10, \hA9, Other(wrapping_add8(v, 1)), \hE6, \h10>>}

\* programs that end in a shift or rotate of v with CARRY = c: LSR 0x10,
\* ROR 0x10, ROR A
ShiftPrograms(v, c) ==
    {<<\hA9, v, \h85, \h10>> \o SetCarry(c) \o <<\h46, \h10>>,
     <<\hA9, v, \h85, \h10>> \o SetCarry(c) \o <<\h66, \h10>>,
     <<\hA9, v>> \o SetCarry(c) \o <<\h6A>>}

\* programs that end in ORA 0x0310, EOR #b or EOR 0x10 of a and b
LogicPrograms(a, b) ==
    {<<\hA9, b, \h8D, \h10, \h03, \hA9, a, \h0D, \h10, \h03>>,
     <<\hA9, a, \h49, b>>,
     <<\hA9, b, \h85, \h10, \hA9, a, \h45, \h10>>}

LogicOperands == {\h00, \h0F, \hFF}

\* the operands a compare of r is run with
CompareOperands(r) == {\h00, \h80, r, wrapping_add8(r, 1)}

\* programs that end in CMP #b with A = r and in CPY #b with Y = r, after a
\* compare of the other register that leaves NEGATIVE unlike bit 7 of r and
\* either CARRY unlike r >= b (and ZERO clear) or ZERO set
ComparePrograms(r, b) ==
    LET y == IF r >= \h80 THEN \h01 ELSE \h81
    IN {<<t[1], r, t[3], y, t[4], k, t[2], b>> :
          t \in {<<\hA9, \hC9, \hA0, \hC0>>, <<\hA0, \hC0, \hA9, \hC9>>},
          k \in {IF r >= b THEN \hFF ELSE \h00, y}}

\* LDA #v; STA z; then INC z, LSR z or ROR z at the ends of the zero page
ModifyPrograms ==
    {<<\hA9, v, \h85, z, op, z>> :
        v \in {\h00, \h01, \h7F, \hFF}, z \in {\h00, \hFF},
        op \in {\hE6, \h46, \h66}}

\* the memory operands a BIT of every accumulator is run with
BitOperands == {\h40, \hC1}

\* a flag byte with CARRY set and ZERO, NEGATIVE and OVERFLOW unlike what a
\* BIT of memory b with accumulator a leaves
UnlikeBit(a, b) ==
    \h34 + CARRY
    + (IF BitAnd(b, a) = 0 THEN 0 ELSE ZERO)
    + (IF BitAnd(b, \h80) # 0 THEN 0 ELSE NEGATIVE)
    + (IF BitAnd(b, \h40) # 0 THEN 0 ELSE OVERFLOW)

\* LDA #b; STA 0x10 (or 0x0310); LDA #f; PHA; LDA #a; PLP; BIT 0x10 (or
\* 0x0310), f being UnlikeBit(a, b)
BitPrograms(a, b) ==
    {<<\hA9, b, \h85, \h10, \hA9, UnlikeBit(a, b), \h48, \hA9, a, \h28,
       \h24, \h10>>,
     <<\hA9, b, \h8D, \h10, \h03, \hA9, UnlikeBit(a, b), \h48, \hA9, a,
       \h28, \h2C, \h10, \h03>>}

\* the programs that work on the byte v
AluPrograms(v) ==
    LoadPrograms(v) \cup TransferPrograms(v) \cup StepPrograms(v)
    \cup UNION {ShiftPrograms(v, c) : c \in BOOLEAN}
    \cup UNION {LogicPrograms(v, b) : b \in LogicOperands}
    \cup UNION {ComparePrograms(v, b) : b \in CompareOperands(v)}
    \cup UNION {BitPrograms(a, v) : a \in LogicOperands}
    \cup UNION {BitPrograms(v, b) : b \in BitOperands}

---------------------------------------------------------------------------
(* The state machine.                                                      *)

Snapshot ==
    [a_reg |-> a_reg, x_reg |-> x_reg, y_reg |-> y_reg,
     prog_counter |-> prog_counter, stack_pointer |-> stack_pointer,
     status_flags |-> status_flags,
     last_exchanged_value |-> last_exchanged_value,
     storage |-> storage, pages |-> pages, phase |-> phase]

NoCall == [call |-> "none", address |-> -1, data |-> -1, byte |-> None,
           claimed |-> FALSE, branch |-> "none"]

\* the 16 header bytes of an iNES file: the magic, the number of PRG banks,
\* the number of CHR banks, flags 6, flags 7, and eight unused bytes
Header(magic, banks, flags6, flags7) ==
    magic \o <<banks, 0, flags6, flags7, 0, 0, 0, 0, 0, 0, 0, 0>>

Magic == <<\h4E, \h45, \h53, \h1A>>

\* a file main loads without a fatal stop, holding the banks of image
FileOf(image) ==
    [header |-> Header(Magic, Len(image), \h01, \h00), prg |-> image]

\* main, from the construction of the bus to Cpu::new
Construct(image) ==
    /\ file = FileOf(image)
    /\ pages = image
    /\ storage = EmptyCells
    /\ last_exchanged_value = 0
    /\ a_reg = Cpu_new.a_reg
    /\ x_reg = Cpu_new.x_reg
    /\ y_reg = Cpu_new.y_reg
    /\ prog_counter = Cpu_new.prog_counter
    /\ stack_pointer = Cpu_new.stack_pointer
    /\ status_flags = Cpu_new.status_flags
    /\ phase = "new"
    /\ opcode = -1
    /\ log = << >>
    /\ ret = NoCall
    /\ pre = Snapshot
    /\ steps = 0
    /\ fetched = {}

Init == \E image \in Images : Construct(image)

InitBus == \E image \in BusImages : Construct(image)

\* the stack, status, indexed-store, indirect-store, JSR, JSR/RTS,
\* one-instruction and absolute-load programs
InitCpu ==
    \/ \E image \in StackImages \cup JsrImages : Construct(image)
    \/ \E s \in StackStarts, f \in Byte :
          Construct(Program(StatusProgram(s, f)))
    \/ \E x \in {\h00, \h01, \h05, \hFF} :
          \E prog \in IndexedStorePrograms(x) : Construct(Program(prog))
    \/ \E y \in {\h00, \h01, \h10, \hFF} :
          \E prog \in IndirectStorePrograms(y) : Construct(Program(prog))
    \/ \E s \in StackStarts :
          \E image \in ReturnImages(s) : Construct(image)
    \/ \E op \in ImplementedOpcodes :
          \E prog \in FlagPrograms(op) : Construct(Program(prog))
    \/ \E op \in ImplementedOpcodes :
          \E image \in EdgeImages(op) : Construct(image)
    \/ \E hi \in \h1F..\hC0 :
          \E prog \in OpenBusPrograms(hi) : Construct(Program(prog))

\* the programs that load, transfer, step, shift, combine, compare and test
\* every byte
InitAlu ==
    \/ \E v \in Byte : \E prog \in AluPrograms(v) : Construct(Program(prog))
    \/ \E prog \in ModifyPrograms : Construct(Program(prog))

\* the machine m replaces the program's state
Install(m) ==
    /\ UNCHANGED file
    /\ pages' = m.pages
    /\ storage' = m.storage
    /\ last_exchanged_value' = m.last_exchanged_value
    /\ a_reg' = m.a_reg
    /\ x_reg' = m.x_reg
    /\ y_reg' = m.y_reg
    /\ prog_counter' = m.prog_counter
    /\ stack_pointer' = m.stack_pointer
    /\ status_flags' = m.status_flags
    /\ log' = m.log
    /\ pre' = Snapshot
    /\ steps' = steps + 1
    /\ fetched' = IF m.opcode = -1 THEN fetched ELSE fetched \cup {m.opcode}

\* main: cpu.reset(&mut cpu_mem_bus)
Reset ==
    /\ phase = "new"
    /\ Install(Cpu_reset(Cur))
    /\ phase' = "running"
    /\ ret' = [NoCall EXCEPT !.call = "reset"]
    /\ UNCHANGED opcode

\* the machine m is what run_instr left
InstallRun(m) ==
    /\ Install(m)
    /\ opcode' = m.opcode
    /\ phase' = IF m.halted THEN "panicked" ELSE "running"
    /\ ret' = [NoCall EXCEPT !.call = "run_instr", !.branch = m.branch]

\* main: one turn of loop { cpu.run_instr(&mut cpu_mem_bus) }
RunInstr ==
    /\ phase = "running"
    /\ steps < MaxSteps
    /\ InstallRun(run_instr(Cur))

\* the same turn, followed to the end of a straight-line program
RunProgram ==
    /\ phase = "running"
    /\ steps < MaxProgramSteps
    /\ InstallRun(run_instr(Cur))

\* a caller of the bus: bus.read(address)
BusReadCall ==
    /\ phase # "panicked"
    /\ steps < MaxCalls
    /\ \E address \in BusAddresses :
         LET return(m) ==
               /\ Install(m)
               /\ ret' = [call |-> "bus_read", address |-> address,
                          data |-> -1, byte |-> m.data, claimed |-> FALSE]
         IN return(CpuMemoryBus_read(Cur, address))
    /\ UNCHANGED <<phase, opcode>>

\* a caller of the bus: bus.write(address, data)
BusWriteCall ==
    /\ phase # "panicked"
    /\ steps < MaxCalls
    /\ \E address \in BusAddresses, data \in BusData :
         /\ Install(CpuMemoryBus_write(Cur, address, data))
         /\ ret' = [call |-> "bus_write", address |-> address, data |-> data,
                    byte |-> None, claimed |-> FALSE]
    /\ UNCHANGED <<phase, opcode>>

\* a caller of the RAM: ram.read(address)
RamReadCall ==
    /\ phase # "panicked"
    /\ steps < MaxCalls
    /\ \E address \in BusAddresses :
         /\ Install(Cur)
         /\ ret' = [call |-> "ram_read", address |-> address, data |-> -1,
                    byte |-> Ram_read(storage, address), claimed |-> FALSE]
    /\ UNCHANGED <<phase, opcode>>

\* a caller of the RAM: ram.write(address, data)
RamWriteCall ==
    /\ phase # "panicked"
    /\ steps < MaxCalls
    /\ \E address \in BusAddresses, data \in BusData :
         LET return(r) ==
               /\ Install([Cur EXCEPT !.storage = r.storage])
               /\ ret' = [call |-> "ram_write", address |-> address,
                          data |-> data, byte |-> None, claimed |-> r.claimed]
         IN return(Ram_write(storage, address, data))
    /\ UNCHANGED <<phase, opcode>>

\* a caller of the cartridge: cart.read(address)
CartReadCall ==
    /\ phase # "panicked"
    /\ steps < MaxCalls
    /\ \E address \in BusAddresses :
         /\ Install(Cur)
         /\ ret' = [call |-> "cart_read", address |-> address, data |-> -1,
                    byte |-> Cart_read(pages, address), claimed |-> FALSE]
    /\ UNCHANGED <<phase, opcode>>

\* a caller of the cartridge: cart.write(address, data)
CartWriteCall ==
    /\ phase # "panicked"
    /\ steps < MaxCalls
    /\ \E address \in BusAddresses, data \in BusData :
         LET return(c) ==
               /\ Install([Cur EXCEPT !.pages = c.pages])
               /\ ret' = [call |-> "cart_write", address |-> address,
                          data |-> data, byte |-> None, claimed |-> c.claimed]
         IN return(Cart_write(pages, address, data))
    /\ UNCHANGED <<phase, opcode>>

\* main: let mapper_number = header_bytes[6] & 0xf0 >> 4 | header_bytes[7] & 0xf0;
\* in Rust >> binds tighter than &, and & tighter than |; header_bytes[i] of
\* the source is header_bytes[i + 1] here
mapper_number(header_bytes) ==
    BitOr(BitAnd(header_bytes[7], \hF0 \div 16),
          BitAnd(header_bytes[8], \hF0))

\* main: the four comparisons of the magic signature
MagicOk(header_bytes) ==
    /\ header_bytes[1] = \h4E
    /\ header_bytes[2] = \h45
    /\ header_bytes[3] = \h53
    /\ header_bytes[4] = \h1A

\* main, from the header to Cpu::new.  file.prg is the data that follows the
\* header and the trainer the header announces; read_exact fails when the
\* file holds fewer banks than header byte 4 asks for.
Load ==
    /\ phase = "start"
    /\ IF /\ MagicOk(file.header)
          /\ mapper_number(file.header) = 1
          /\ file.header[5] <= Len(file.prg)
       THEN /\ pages' = SubSeq(file.prg, 1, file.header[5])
            /\ storage' = EmptyCells
            /\ last_exchanged_value' = 0
            /\ a_reg' = Cpu_new.a_reg
            /\ x_reg' = Cpu_new.x_reg
            /\ y_reg' = Cpu_new.y_reg
            /\ prog_counter' = Cpu_new.prog_counter
            /\ stack_pointer' = Cpu_new.stack_pointer
            /\ status_flags' = Cpu_new.status_flags
            /\ phase' = "new"
       ELSE /\ phase' = "panicked"
            /\ UNCHANGED <<pages, storage, last_exchanged_value, a_reg, x_reg,
                           y_reg, prog_counter, stack_pointer, status_flags>>
    /\ ret' = [NoCall EXCEPT !.call = "load"]
    /\ pre' = Snapshot
    /\ UNCHANGED <<file, opcode, log, steps, fetched>>

\* the PRG data of the files the loader is given
LoaderImage == Image(1, \h02, \hFFF6, LoopProgram(\hFFF6))

OtherMagic == <<\h41, \h42, \h43, \h58>>

\* main after File::open and before the header is read: no cartridge, bus
\* or CPU exists yet.  The files: every pair of flag bytes 6 and 7 on a
\* one-bank file, and a few files with another magic or bank count.
InitLoader ==
    /\ \/ \E h6 \in Byte, h7 \in Byte :
            file = [header |-> Header(Magic, 1, h6, h7), prg |-> LoaderImage]
       \/ \E h6 \in {\h01, \h10} :
            file = [header |-> Header(OtherMagic, 1, h6, \h00),
                    prg |-> LoaderImage]
       \/ \E n \in {0, 2}, h6 \in {\h01, \h10} :
            file = [header |-> Header(Magic, n, h6, \h00),
                    prg |-> LoaderImage]
    /\ pages = << >>
    /\ storage = EmptyCells
    /\ last_exchanged_value = None
    /\ a_reg = None
    /\ x_reg = None
    /\ y_reg = None
    /\ prog_counter = None
    /\ stack_pointer = None
    /\ status_flags = None
    /\ phase = "start"
    /\ opcode = -1
    /\ log = << >>
    /\ ret = NoCall
    /\ pre = Snapshot
    /\ steps = 0
    /\ fetched = {}

Next == Reset \/ RunInstr

Spec == Init /\ [][Next]_vars

NextBus ==
    \/ Reset
    \/ RunInstr
    \/ BusReadCall
    \/ BusWriteCall
    \/ RamReadCall
    \/ RamWriteCall
    \/ CartReadCall
    \/ CartWriteCall

SpecBus == InitBus /\ [][NextBus]_vars

NextCpu == Reset \/ RunProgram

SpecCpu == InitCpu /\ [][NextCpu]_vars

SpecAlu == InitAlu /\ [][NextCpu]_vars

NextLoader == Load \/ Reset \/ RunInstr

SpecLoader == InitLoader /\ [][NextLoader]_vars

---------------------------------------------------------------------------
(* Properties.                                                             *)

AfterRunInstr == ret.call = "run_instr"

\* the reset vector the cartridge holds
ResetVector == Mmc1_read(pages, \hFFFD) * 256 + Mmc1_read(pages, \hFFFC)

\* the cartridge holds LDA #0x42; STA 0x0010; JMP start at its reset vector
LoopCart ==
    /\ Len(pages) >= 1
    /\ ResetVector + 7 <= \hFFFF
    /\ \A k \in 1..8 :
         Mmc1_read(pages, ResetVector + k - 1) = LoopProgram(ResetVector)[k]

\* C1: with the cartridge LDA #0x42; STA 0x0010; JMP S at reset vector S,
\* after reset and 3 run_instr steps, and after every later multiple of 3
\* steps, RAM cell 0x0010 and the accumulator hold 0x42, Zero and Negative
\* are clear and the program counter is S; the fatal path is never reached.
C1_LoopScenario ==
    LoopCart =>
      /\ phase # "panicked"
      /\ (AfterRunInstr /\ (steps - 1) % 3 = 0) =>
           /\ Ram_read(storage, \h0010) = \h42
           /\ a_reg = \h42
           /\ ~FlagHas(status_flags, ZERO)
           /\ ~FlagHas(status_flags, NEGATIVE)
           /\ prog_counter = ResetVector

C1_Witness ==
    /\ LoopCart
    /\ ResetVector = \hFFF6
    /\ AfterRunInstr
    /\ steps = 7
    /\ Ram_read(storage, \h0010) = \h42

\* C2: reset of the power-on state leaves SP = 0xFC, sets InterruptDisable,
\* keeps A, X, Y and the other flag bits, and reads exactly 0xFFFC and then
\* 0xFFFD; PC = (byte at 0xFFFD) * 256 + (byte at 0xFFFC).
C2_ResetLowByteFirst ==
    ret.call = "reset" =>
      /\ stack_pointer = \hFC
      /\ FlagHas(status_flags, INTERRUPT_DISABLE)
      /\ a_reg = pre.a_reg /\ x_reg = pre.x_reg /\ y_reg = pre.y_reg
      /\ BitAnd(status_flags, 255 - INTERRUPT_DISABLE)
           = BitAnd(pre.status_flags, 255 - INTERRUPT_DISABLE)
      /\ Len(log) = 2
      /\ log[1].op = "read" /\ log[1].address = \hFFFC
      /\ log[2].op = "read" /\ log[2].address = \hFFFD
      /\ prog_counter = log[2].data * 256 + log[1].data

\* C3: after every CpuMemoryBus read or write, the latch equals the byte
\* transferred: the byte the read returned, or the byte given to the write,
\* claimed or not; the same for the accesses the CPU issues.
C3_LatchIsLastTransfer ==
    /\ ret.call = "bus_read" => last_exchanged_value = ret.byte
    /\ ret.call = "bus_write" => last_exchanged_value = ret.data
    /\ Len(log) > 0 => last_exchanged_value = log[Len(log)].data

C3_Witness ==
    /\ ret.call = "bus_write"
    /\ ret.address = \h2000
    /\ ret.data = \hA5
    /\ pre.last_exchanged_value = \h00
    /\ last_exchanged_value = \hA5

\* no device claims the address (fixed-bank mapper, 2 KiB mirrored RAM)
Unclaimed(address) == address >= \h2000 /\ address <= \hBFFF

\* C4: a bus read asks the cartridge first and the RAM second and returns
\* the first claimed byte; an unclaimed read returns the latch and leaves it
\* (and every device) unchanged; an unclaimed write latches the written byte
\* and changes no device storage.
C4_OpenBus ==
    /\ \A i \in 1..Len(log) :
         log[i].op = "read" =>
           /\ log[i].asked[1] = "cart"
           /\ Len(log[i].asked) = 2 =>
                /\ log[i].asked[2] = "ram"
                /\ ~(log[i].address >= \hC000 /\ Len(pages) >= 1)
           /\ Len(log[i].asked) = 1 => log[i].address >= \hC000
    /\ (ret.call = "bus_read" /\ ~Unclaimed(ret.address)) =>
           ret.byte = IF ret.address >= \hC000 /\ Len(pages) >= 1
                      THEN PageByte(pages[Len(pages)], ret.address - \hC000)
                      ELSE IF ret.address <= \h1FFF
                      THEN RamCell(pre.storage, ret.address % 2048)
                      ELSE pre.last_exchanged_value
    /\ (ret.call = "bus_read" /\ Unclaimed(ret.address)) =>
           /\ ret.byte = pre.last_exchanged_value
           /\ last_exchanged_value = pre.last_exchanged_value
           /\ storage = pre.storage /\ pages = pre.pages
    /\ (ret.call = "bus_write" /\ Unclaimed(ret.address)) =>
           /\ last_exchanged_value = ret.data
           /\ storage = pre.storage /\ pages = pre.pages

C4_Witness ==
    /\ ret.call = "bus_read"
    /\ Unclaimed(ret.address)
    /\ ret.byte = \hA5
    /\ pre.last_exchanged_value = \hA5
    /\ steps = 3

\* C5: a RAM write of b at a in 0x0000..0x1FFF is claimed, a following read
\* at a or at any mirror of a returns b, and every other cell is unchanged;
\* above 0x1FFF a RAM read returns none, a write returns false, and the
\* storage is unchanged.
C5_RamMirrors ==
    /\ (ret.call = "ram_write" /\ ret.address <= \h1FFF) =>
         /\ ret.claimed
         /\ \A a \in 0..\h1FFF :
              IF a % 2048 = ret.address % 2048
              THEN Ram_read(storage, a) = ret.data
              ELSE Ram_read(storage, a) = Ram_read(pre.storage, a)
    /\ (ret.call = "ram_write" /\ ret.address > \h1FFF) =>
         /\ ~ret.claimed
         /\ storage = pre.storage
    /\ (ret.call = "ram_read" /\ ret.address <= \h1FFF) =>
         /\ ret.byte = RamCell(storage, ret.address % 2048)
         /\ storage = pre.storage
    /\ (ret.call = "ram_read" /\ ret.address > \h1FFF) =>
         /\ ret.byte = None
         /\ storage = pre.storage

C5_Witness ==
    /\ ret.call = "ram_read"
    /\ ret.address = \h0010
    /\ ret.byte = \hA5
    /\ RamCell(storage, \h0010) = \hA5
    /\ \E a \in DOMAIN storage : a # \h0010

\* C6: with n >= 1 banks, a cartridge write is rejected at every address and
\* changes nothing, a read at a in 0xC000..0xFFFF returns byte a - 0xC000 of
\* the last bank (also for the reads the bus and the CPU make), and no
\* address below 0xC000 is claimed.
C6_LastBankReadOnly ==
    /\ pages = pre.pages
    /\ ret.call = "cart_write" => ~ret.claimed
    /\ (ret.call = "cart_read" /\ Len(pages) >= 1) =>
         ret.byte = IF ret.address >= \hC000
                    THEN PageByte(pages[Len(pages)], ret.address - \hC000)
                    ELSE None
    /\ Len(pages) >= 1 =>
         \A i \in 1..Len(log) :
           /\ (log[i].op = "read" /\ log[i].address >= \hC000) =>
                log[i].data = PageByte(pages[Len(pages)],
                                       log[i].address - \hC000)
           /\ (log[i].op = "write" /\ log[i].address >= \hC000) =>
                ~log[i].claimed
           /\ Len(log[i].asked) = 1 => log[i].address >= \hC000

C6_Witness ==
    /\ Len(pages) >= 2
    /\ ret.call = "bus_read"
    /\ ret.address = \hC010
    /\ ret.byte = pages[Len(pages)].fill
    /\ pages[1].fill # pages[Len(pages)].fill
    /\ steps = 3

\* the opcode bytes of the mnemonic / addressing-mode pairs of the opcode
\* table of section 4.4 of the specification
TableOpcodes ==
    {\h08, \h68, \h28, \h48,                  \* PHP, PLA, PLP, PHA
     \h8E, \h86, \h8C, \h84,                  \* STX, STY: Absolute, Zero Page
     \h8D, \h85, \h95, \h9D, \h91,            \* STA
     \hA9, \hA5, \hAD,                        \* LDA
     \hA2, \hA6, \hAE,                        \* LDX
     \hA0, \hA4, \hAC,                        \* LDY
     \hBA, \hAA, \hA8, \h98, \h9A,            \* TSX, TAX, TAY, TYA, TXS
     \h4C, \h20, \h60,                        \* JMP, JSR, RTS
     \hE8, \hC8, \hCA, \h88, \hE6,            \* INX, INY, DEX, DEY, INC
     \h78, \hD8,                              \* SEI, CLD
     \hD0, \hF0, \h10, \h30, \h90,            \* BNE, BEQ, BPL, BMI, BCC
     \h09, \h05, \h49, \h45,                  \* ORA, EOR: Immediate, Zero Page
     \h24, \h2C,                              \* BIT
     \hC9, \hC0,                              \* CMP, CPY
     \h46, \h66, \h6A}                        \* LSR, ROR

\* the last run_instr did nothing but fetch its opcode and stop
FatalStopAfterFetch ==
    /\ phase = "panicked"
    /\ Len(log) = 1
    /\ log[1].op = "read" /\ log[1].address = pre.prog_counter
    /\ log[1].data = opcode
    /\ prog_counter = (pre.prog_counter + 1) % 65536
    /\ a_reg = pre.a_reg /\ x_reg = pre.x_reg /\ y_reg = pre.y_reg
    /\ stack_pointer = pre.stack_pointer
    /\ status_flags = pre.status_flags
    /\ storage = pre.storage /\ pages = pre.pages

\* C7, as stated: every opcode byte that is not in the table of section 4.4
\* ends run_instr in the fatal stop naming that opcode, with no bus access
\* and no register or flag change beyond the opcode fetch.
C7_Original ==
    (AfterRunInstr /\ opcode \notin TableOpcodes) => FatalStopAfterFetch

\* C7, amended: the same for every opcode byte that is neither in the table
\* nor 0x0D (ORA Absolute), which the code implements.
C7_UnknownOpcodeIsFatal ==
    (AfterRunInstr /\ opcode \notin TableOpcodes \cup {\h0D})
       => FatalStopAfterFetch

C7_Witness ==
    /\ AfterRunInstr
    /\ opcode = \hEA
    /\ phase = "panicked"
    /\ prog_counter = \hC001

\* C8, as stated: the opcode of every pair of the table of section 4.4
\* (ORA Immediate 0x09, ORA Zero Page 0x05 and LDX Absolute 0xAE included)
\* is executed and never reaches the fatal stop.
C8_Original ==
    (AfterRunInstr /\ opcode \in TableOpcodes) => phase # "panicked"

\* C8, amended: every pair of the table except ORA Immediate 0x09, ORA Zero
\* Page 0x05 and LDX Absolute 0xAE is executed (it goes on past the opcode
\* fetch) and never reaches the fatal stop; those three have no arm and end
\* in the fatal stop.
C8_TableOpcodesRun ==
    /\ (AfterRunInstr /\ opcode \in TableOpcodes \ {\h09, \h05, \hAE}) =>
          /\ phase = "running"
          /\ Len(log) >= 2
    /\ (AfterRunInstr /\ opcode \in {\h09, \h05, \hAE}) => FatalStopAfterFetch

C8_Witness ==
    /\ AfterRunInstr
    /\ opcode = \hC0
    /\ phase = "running"
    /\ FlagHas(status_flags, CARRY)

\* the offset byte of a relative branch as a signed number
Signed(d) == IF d < \h80 THEN d ELSE d - 256

\* the last run_instr was a relative branch, and the code took it
TakenBranch ==
    /\ AfterRunInstr
    /\ opcode \in BranchOpcodes
    /\ CASE opcode = \hD0 -> ~FlagHas(pre.status_flags, ZERO)
         [] opcode = \hF0 -> FlagHas(pre.status_flags, ZERO)
         [] opcode = \h10 -> ~FlagHas(pre.status_flags, NEGATIVE)
         [] opcode = \h30 -> FlagHas(pre.status_flags, NEGATIVE)
         [] opcode = \h90 -> FlagHas(pre.status_flags, CARRY)

\* the address after the operand byte, and the destination of the branch
BranchNext == (pre.prog_counter + 2) % 65536

BranchDest == (pre.prog_counter + 2 + Signed(log[2].data)) % 65536

\* C9: a taken branch whose negative offset leads into another 256-byte page
\* than the address after the operand issues exactly one more bus read, at
\* the destination, after the operand fetch; a taken branch that stays in
\* the page issues no bus access after the operand fetch.
C9_BranchPageCross ==
    TakenBranch =>
      /\ (log[2].data >= \h80 /\ Hi(BranchDest) # Hi(BranchNext)) =>
            /\ Len(log) = 3
            /\ log[3].op = "read"
            /\ log[3].address = BranchDest
      /\ Hi(BranchDest) = Hi(BranchNext) => Len(log) = 2

\* C10: a taken branch at p with operand d leaves the program counter at
\* (p + 2 + s) mod 65536, s being d as a signed 8-bit offset.
C10_BranchDestination ==
    TakenBranch => prog_counter = BranchDest

\* the bus accesses of a push of data by run_instr at pre: the dummy read at
\* the address after the opcode, then the write at 0x0100 | SP
PushAccesses(data) ==
    /\ Len(log) = 3
    /\ log[2].op = "read"
    /\ log[2].address = (pre.prog_counter + 1) % 65536
    /\ log[3].op = "write"
    /\ log[3].address = BitOr(\h0100, pre.stack_pointer)
    /\ log[3].data = data
    /\ stack_pointer = (pre.stack_pointer + 255) % 256
    /\ Ram_read(storage, log[3].address) = data

\* the bus accesses of a pull by run_instr at pre: the dummy reads at the
\* address after the opcode and at the old stack pointer, then the read at
\* 0x0100 | SP after SP went up by one; the byte pulled
PullAccesses ==
    /\ Len(log) = 4
    /\ log[2].op = "read"
    /\ log[2].address = (pre.prog_counter + 1) % 65536
    /\ log[3].op = "read"
    /\ log[3].address = BitOr(\h0100, pre.stack_pointer)
    /\ stack_pointer = (pre.stack_pointer + 1) % 256
    /\ log[4].op = "read"
    /\ log[4].address = BitOr(\h0100, stack_pointer)
    /\ log[4].data = Ram_read(pre.storage, BitOr(\h0100, stack_pointer))
    /\ storage = pre.storage

\* the number of pushes of the stack program the cartridge holds, from the
\* number of ROM cells it sets (the program and the reset vector)
StackCount == (Cardinality(DOMAIN pages[1].cells) - 5) \div 4

\* the stack pointer the stack program starts from: the operand of its LDX
StackStart == Mmc1_read(pages, \hC001)

\* the cartridge holds the stack program of StackCount pushes from StackStart
HoldsStackProgram ==
    /\ Len(pages) = 1
    /\ StackCount \in 1..StackSize
    /\ pages = Program(StackProgram(StackStart, StackCount))

\* C11: a push (PHA) writes at 0x0100 | SP and then decrements SP modulo
\* 256, a pull (PLA) increments SP modulo 256 and then returns the byte at
\* 0x0100 | SP; n <= 256 pushes from any SP = s end with SP = s - n mod 256
\* without a fatal stop, and the n pulls that follow return the pushed bytes
\* in reverse order and end with SP = s (16 pushes from 0x01 end at 0xF1).
C11_StackLifo ==
    /\ (AfterRunInstr /\ opcode = \h48) =>
          /\ PushAccesses(pre.a_reg)
          /\ phase = "running"
    /\ (AfterRunInstr /\ opcode = \h68) =>
          /\ PullAccesses
          /\ a_reg = log[4].data
          /\ phase = "running"
    /\ HoldsStackProgram =>
          /\ steps <= 3 * StackCount + 3 => phase # "panicked"
          /\ steps = 2 * StackCount + 3 =>
                stack_pointer = (StackStart + StackSize - StackCount) % 256
          /\ \A j \in 1..StackCount :
                steps = 2 * StackCount + 3 + j =>
                  /\ a_reg = PushValue(StackCount + 1 - j)
                  /\ stack_pointer =
                        (StackStart + StackSize - StackCount + j) % 256

C11_Witness ==
    /\ HoldsStackProgram
    /\ StackStart = \h01
    /\ StackCount = 16
    /\ steps = 51
    /\ AfterRunInstr /\ opcode = \h68
    /\ pre.stack_pointer = \h00
    /\ stack_pointer = \h01
    /\ a_reg = PushValue(1)
    /\ Ram_read(storage, \h01F2) = PushValue(16)

\* the opcodes that set ZERO and NEGATIVE from their result, by the place
\* the result goes to
ResultInA == {\hA9, \hA5, \hAD, \h68, \h98, \h0D, \h45, \h49, \h6A}

ResultInX == {\hA2, \hA6, \hBA, \hAA, \hE8, \hCA}

ResultInY == {\hA0, \hA4, \hAC, \hA8, \hC8, \h88}

ResultInMemory == {\hE6, \h46, \h66}

\* the final value the last instruction produced
Result ==
    IF opcode \in ResultInA THEN a_reg
    ELSE IF opcode \in ResultInX THEN x_reg
    ELSE IF opcode \in ResultInY THEN y_reg
    ELSE Ram_read(storage, log[Len(log)].address)

\* C12: after every instruction that sets Z/N from a result (LDA/LDX/LDY,
\* PLA, TSX/TAX/TAY/TYA, INX/INY/DEX/DEY, INC, ORA/EOR, LSR, ROR), Zero is set
\* iff the final value (the register loaded, the byte written) is 0 and
\* Negative iff its bit 7 is set.
C12_ZeroNegativeFromResult ==
    (AfterRunInstr /\ opcode \in ResultInA \cup ResultInX \cup ResultInY
                                      \cup ResultInMemory) =>
       /\ phase = "running"
       /\ opcode \in ResultInMemory =>
             /\ log[Len(log)].op = "write"
             /\ log[Len(log)].data = Result
       /\ FlagHas(status_flags, ZERO) <=> Result = 0
       /\ FlagHas(status_flags, NEGATIVE) <=> Result >= \h80

C12_Witness ==
    /\ AfterRunInstr
    /\ opcode = \hE6
    /\ Ram_read(pre.storage, \h10) = \h7F
    /\ Ram_read(storage, \h10) = \h80
    /\ ~FlagHas(pre.status_flags, NEGATIVE)
    /\ FlagHas(status_flags, NEGATIVE)
    /\ ~FlagHas(status_flags, ZERO)

\* the register the last compare compared: A for CMP, Y for CPY
Compared == IF opcode = \hC9 THEN pre.a_reg ELSE pre.y_reg

\* the registers and the RAM are as they were before the last instruction
RegistersKept ==
    /\ a_reg = pre.a_reg /\ x_reg = pre.x_reg /\ y_reg = pre.y_reg
    /\ stack_pointer = pre.stack_pointer

\* the flag bits outside mask are as they were before the last instruction
FlagsKeptOutside(mask) ==
    BitAnd(status_flags, 255 - mask) = BitAnd(pre.status_flags, 255 - mask)

\* C13: CMP #b with A = r, and CPY #b with Y = r, set Carry iff r >= b,
\* Zero iff r = b and Negative iff bit 7 of r (the register) is set, and
\* leave A, X, Y, SP and the other flag bits unchanged; CMP #0x01 with
\* A = 0x00 clears all three.
C13_CompareFlags ==
    (AfterRunInstr /\ opcode \in {\hC9, \hC0}) =>
       /\ phase = "running"
       /\ Len(log) = 2
       /\ FlagHas(status_flags, CARRY) <=> Compared >= log[2].data
       /\ FlagHas(status_flags, ZERO) <=> Compared = log[2].data
       /\ FlagHas(status_flags, NEGATIVE) <=> Compared >= \h80
       /\ RegistersKept
       /\ FlagsKeptOutside(CARRY + ZERO + NEGATIVE)
       /\ (opcode = \hC9 /\ pre.a_reg = \h00 /\ log[2].data = \h01) =>
             BitAnd(status_flags, CARRY + ZERO + NEGATIVE) = 0

C13_Witness ==
    /\ AfterRunInstr
    /\ opcode = \hC9
    /\ pre.a_reg = \h00
    /\ log[2].data = \h01
    /\ BitAnd(pre.status_flags, CARRY + ZERO + NEGATIVE) = CARRY + NEGATIVE
    /\ BitAnd(status_flags, CARRY + ZERO + NEGATIVE) = 0

\* the cartridge holds the status program of flags StatusByte from StackStart
StatusByte == Mmc1_read(pages, \hC004)

HoldsStatusProgram ==
    /\ Len(pages) = 1
    /\ pages = Program(StatusProgram(StackStart, StatusByte))

\* C14: PHP writes all 8 flag bits unmodified at 0x0100 | SP, PLP replaces
\* all 8 flag bits by the byte pulled (B and Ignored included), and for
\* every flag byte f and every SP, PHP followed by PLP leaves the flags
\* equal to f and SP unchanged.
C14_StatusRoundTrip ==
    /\ (AfterRunInstr /\ opcode = \h08) =>
          /\ PushAccesses(pre.status_flags)
          /\ status_flags = pre.status_flags
          /\ phase = "running"
    /\ (AfterRunInstr /\ opcode = \h28) =>
          /\ PullAccesses
          /\ status_flags = log[4].data
          /\ phase = "running"
    /\ HoldsStatusProgram =>
          /\ steps = 6 =>
                status_flags = StatusByte /\ stack_pointer = StackStart
          /\ steps = 7 =>
                /\ Ram_read(storage, BitOr(\h0100, StackStart)) = StatusByte
                /\ status_flags = StatusByte
          /\ steps = 8 => status_flags # StatusByte
          /\ steps = 9 =>
                status_flags = StatusByte /\ stack_pointer = StackStart

C14_Witness ==
    /\ HoldsStatusProgram
    /\ StackStart = \h00
    /\ StatusByte = \hCB
    /\ steps = 9
    /\ AfterRunInstr /\ opcode = \h28
    /\ pre.status_flags = \h49
    /\ status_flags = \hCB
    /\ stack_pointer = \h00

\* the 16-bit operand of the last instruction
AbsoluteOperand == log[2].data + 256 * log[3].data

\* C15: STA Zero-Page,X and STA Absolute,X make a dummy read at the
\* unindexed base address (the operand) right before the write, and write
\* A at (operand + X) mod 256, respectively (operand + X) mod 65536.
C15_IndexedStoreDummyRead ==
    /\ (AfterRunInstr /\ opcode = \h95) =>
          /\ Len(log) = 4
          /\ log[3].op = "read"
          /\ log[3].address = log[2].data
          /\ log[4].op = "write"
          /\ log[4].address = (log[2].data + pre.x_reg) % 256
          /\ log[4].data = pre.a_reg
    /\ (AfterRunInstr /\ opcode = \h9D) =>
          /\ Len(log) = 5
          /\ log[4].op = "read"
          /\ log[4].address = AbsoluteOperand
          /\ log[5].op = "write"
          /\ log[5].address = (AbsoluteOperand + pre.x_reg) % 65536
          /\ log[5].data = pre.a_reg

\* the i-th bus access of the last operation is a read at address
ReadAt(i, address) == log[i].op = "read" /\ log[i].address = address

\* the i-th bus access of the last operation is a write of data at address
WriteAt(i, address, data) ==
    log[i].op = "write" /\ log[i].address = address /\ log[i].data = data

\* the address n bytes after the opcode of the last instruction
After(n) == (pre.prog_counter + n) % 65536

\* C17: JSR at p with SP = s makes exactly these bus accesses, in order:
\* read p, read p+1 (target low), dummy read at 0x0100 | s, write the high
\* byte of p+2 at 0x0100 | s, write the low byte of p+2 at
\* 0x0100 | (s-1 mod 256), read p+2 (target high); then PC = target and
\* SP = s - 2 mod 256.
C17_JsrAccesses ==
    (AfterRunInstr /\ opcode = \h20) =>
       /\ Len(log) = 6
       /\ ReadAt(1, pre.prog_counter)
       /\ ReadAt(2, After(1))
       /\ ReadAt(3, BitOr(\h0100, pre.stack_pointer))
       /\ WriteAt(4, BitOr(\h0100, pre.stack_pointer), Hi(After(2)))
       /\ WriteAt(5, BitOr(\h0100, (pre.stack_pointer + 255) % 256),
                  Lo(After(2)))
       /\ ReadAt(6, After(2))
       /\ prog_counter = log[2].data + 256 * log[6].data
       /\ stack_pointer = (pre.stack_pointer + 254) % 256
       /\ phase = "running"

C17_Witness ==
    /\ AfterRunInstr /\ opcode = \h20
    /\ pre.prog_counter = \hC0FE
    /\ pre.stack_pointer = \h00
    /\ Ram_read(storage, \h0100) = \hC1
    /\ Ram_read(storage, \h01FF) = \h00
    /\ stack_pointer = \hFE
    /\ prog_counter = \hC123

\* the last instruction read the byte at zero-page address log[2].data,
\* wrote it back unchanged and then wrote a new byte there: five accesses
ReadModifyWrite ==
    /\ Len(log) = 5
    /\ ReadAt(1, pre.prog_counter)
    /\ ReadAt(2, After(1))
    /\ ReadAt(3, log[2].data)
    /\ log[3].data = Ram_read(pre.storage, log[2].data)
    /\ WriteAt(4, log[2].data, log[3].data)
    /\ log[5].op = "write"
    /\ log[5].address = log[2].data
    /\ Ram_read(storage, log[2].data) = log[5].data

\* C18: INC, LSR and ROR at zero-page address z holding v read the opcode,
\* read z, read v at z, write v back at z and write the new value at z, in
\* this order; the new value is (v + 1) mod 256 for INC and v >> 1 for LSR;
\* LSR sets Carry to bit 0 of v and INC leaves Carry unchanged.
C18_ReadModifyWrite ==
    /\ (AfterRunInstr /\ opcode \in {\hE6, \h46, \h66}) =>
          ReadModifyWrite /\ phase = "running"
    /\ (AfterRunInstr /\ opcode = \hE6) =>
          /\ log[5].data = (log[3].data + 1) % 256
          /\ FlagHas(status_flags, CARRY) <=> FlagHas(pre.status_flags, CARRY)
    /\ (AfterRunInstr /\ opcode = \h46) =>
          /\ log[5].data = log[3].data \div 2
          /\ FlagHas(status_flags, CARRY) <=> log[3].data % 2 = 1

C18_Witness ==
    /\ AfterRunInstr /\ opcode = \h46
    /\ log[2].data = \hFF
    /\ log[3].data = \h01
    /\ log[5].data = \h00
    /\ ~FlagHas(pre.status_flags, CARRY)
    /\ FlagHas(status_flags, CARRY)
    /\ FlagHas(status_flags, ZERO)

\* v rotated right through a carry that was c
Rotated(v, c) == (v \div 2) + (IF c THEN 128 ELSE 0)

\* C19: ROR of v with Carry = c before the instruction produces
\* (v >> 1) | (c ? 0x80 : 0), sets Carry to bit 0 of v and Zero / Negative
\* from the result; in Accumulator mode the result goes to A and the only
\* bus accesses are the opcode fetch and one dummy read at PC.
C19_RotateRight ==
    /\ (AfterRunInstr /\ opcode = \h66) =>
          /\ ReadModifyWrite
          /\ log[5].data =
                Rotated(log[3].data, FlagHas(pre.status_flags, CARRY))
          /\ FlagHas(status_flags, CARRY) <=> log[3].data % 2 = 1
          /\ FlagHas(status_flags, ZERO) <=> log[5].data = 0
          /\ FlagHas(status_flags, NEGATIVE) <=> log[5].data >= \h80
          /\ a_reg = pre.a_reg
    /\ (AfterRunInstr /\ opcode = \h6A) =>
          /\ a_reg = Rotated(pre.a_reg, FlagHas(pre.status_flags, CARRY))
          /\ FlagHas(status_flags, CARRY) <=> pre.a_reg % 2 = 1
          /\ FlagHas(status_flags, ZERO) <=> a_reg = 0
          /\ FlagHas(status_flags, NEGATIVE) <=> a_reg >= \h80
          /\ Len(log) = 2
          /\ ReadAt(1, pre.prog_counter)
          /\ ReadAt(2, After(1))
          /\ storage = pre.storage
          /\ prog_counter = After(1)

C19_Witness ==
    /\ AfterRunInstr /\ opcode = \h6A
    /\ pre.a_reg = \h01
    /\ ~FlagHas(pre.status_flags, CARRY)
    /\ a_reg = \h00
    /\ FlagHas(status_flags, CARRY)
    /\ FlagHas(status_flags, ZERO)

\* the memory operand of the last instruction: the byte its last read got
MemoryOperand == log[Len(log)].data

\* C20: BIT (Zero Page and Absolute) of memory operand b with accumulator a
\* sets Zero iff (b AND a) = 0, Negative iff bit 7 of b is set and Overflow
\* iff bit 6 of b is set, and leaves A, X, Y, SP, Carry and the memory
\* operand unchanged.
C20_BitTest ==
    /\ (AfterRunInstr /\ opcode = \h24) =>
          Len(log) = 3 /\ ReadAt(3, log[2].data)
    /\ (AfterRunInstr /\ opcode = \h2C) =>
          Len(log) = 4 /\ ReadAt(4, AbsoluteOperand)
    /\ (AfterRunInstr /\ opcode \in {\h24, \h2C}) =>
          /\ phase = "running"
          /\ FlagHas(status_flags, ZERO)
                <=> BitAnd(MemoryOperand, pre.a_reg) = 0
          /\ FlagHas(status_flags, NEGATIVE) <=> MemoryOperand >= \h80
          /\ FlagHas(status_flags, OVERFLOW)
                <=> (MemoryOperand \div 64) % 2 = 1
          /\ RegistersKept
          /\ FlagsKeptOutside(ZERO + NEGATIVE + OVERFLOW)
          /\ storage = pre.storage
          /\ pages = pre.pages

C20_Witness ==
    /\ AfterRunInstr /\ opcode = \h24
    /\ pre.a_reg = \h0F
    /\ MemoryOperand = \hC0
    /\ Ram_read(storage, \h10) = \hC0
    /\ BitAnd(pre.status_flags, ZERO + NEGATIVE + OVERFLOW + CARRY) = CARRY
    /\ BitAnd(status_flags, ZERO + NEGATIVE + OVERFLOW + CARRY)
         = ZERO + NEGATIVE + OVERFLOW + CARRY

\* the pointer byte of the last STA (Indirect),Y, and the base address the
\* zero page held for it before the instruction
PointerByte ==
    IF After(1) >= \hC000 THEN Mmc1_read(pre.pages, After(1))
    ELSE Ram_read(pre.storage, After(1))

IndirectBase ==
    Ram_read(pre.storage, PointerByte)
    + 256 * Ram_read(pre.storage, (PointerByte + 1) % 256)

\* C21: STA (Indirect),Y with pointer byte z makes six bus accesses: the
\* opcode and pointer fetches, a read at z, a read at (z + 1) mod 256, a
\* dummy read and then the write of A, both at (base + Y) mod 65536, base
\* being the two bytes read; PC moves past the pointer byte and A, X, Y, SP
\* and the flags are unchanged.
C21_IndirectStore ==
    (AfterRunInstr /\ opcode = \h91) =>
       /\ Len(log) = 6
       /\ ReadAt(1, pre.prog_counter)
       /\ ReadAt(2, After(1))
       /\ ReadAt(3, PointerByte)
       /\ ReadAt(4, (PointerByte + 1) % 256)
       /\ ReadAt(5, (IndirectBase + pre.y_reg) % 65536)
       /\ WriteAt(6, (IndirectBase + pre.y_reg) % 65536, pre.a_reg)
       /\ prog_counter = After(2)
       /\ RegistersKept
       /\ status_flags = pre.status_flags

C21_Witness ==
    /\ AfterRunInstr /\ opcode = \h91
    /\ PointerByte = \hFF
    /\ IndirectBase = \h03FF
    /\ pre.y_reg = \h01
    /\ log[4].address = \h0000
    /\ Ram_read(pre.storage, \h0400) # \h5A
    /\ Ram_read(storage, \h0400) = \h5A

\* the condition each relative branch is named after, on the flags before
\* the instruction
NamedCondition ==
    CASE opcode = \hD0 -> ~FlagHas(pre.status_flags, ZERO)
      [] opcode = \hF0 -> FlagHas(pre.status_flags, ZERO)
      [] opcode = \h10 -> ~FlagHas(pre.status_flags, NEGATIVE)
      [] opcode = \h30 -> FlagHas(pre.status_flags, NEGATIVE)
      [] opcode = \h90 -> ~FlagHas(pre.status_flags, CARRY)

\* the last instruction made the opcode and operand fetches and nothing
\* else: PC is after the operand, registers and flags are as before
FetchesOnly ==
    /\ Len(log) = 2
    /\ ReadAt(1, pre.prog_counter)
    /\ ReadAt(2, After(1))
    /\ prog_counter = After(2)
    /\ RegistersKept
    /\ status_flags = pre.status_flags

\* C22: a relative branch is taken exactly when its named condition holds
\* (BNE Zero clear, BEQ Zero set, BPL Negative clear, BMI Negative set,
\* BCC Carry clear); when the condition is false it makes exactly the two
\* fetches, leaves PC after the offset byte and changes no other register
\* or flag.
C22_BranchCondition ==
    (AfterRunInstr /\ opcode \in BranchOpcodes) =>
       /\ ret.branch = "taken" <=> NamedCondition
       /\ ~NamedCondition => FetchesOnly

\* the address of the JSR of a JSR/RTS program and the stack pointer the
\* program sets before it
CallSite == IF ResetVector = \hFFF2 THEN \hFFFE ELSE ResetVector + 3

CallStackPointer ==
    Mmc1_read(pages, IF ResetVector = \hFFF2 THEN \hFFF7 ELSE ResetVector + 1)

HoldsReturnProgram == pages \in ReturnImages(CallStackPointer)

\* the address on the stack before the last instruction: low byte at
\* 0x0100 | (SP+1), high byte at 0x0100 | (SP+2)
StackedAddress ==
    Ram_read(pre.storage, BitOr(\h0100, (pre.stack_pointer + 1) % 256))
    + 256 * Ram_read(pre.storage, BitOr(\h0100, (pre.stack_pointer + 2) % 256))

\* C23: RTS makes six bus reads in order: opcode, dummy at PC, dummy at
\* 0x0100 | SP, low byte at 0x0100 | (SP+1), high byte at 0x0100 | (SP+2),
\* and one read at the pulled address; after a JSR at p with SP = s and an
\* RTS that finds the two pushed bytes as they were pushed, PC is
\* (p + 3) mod 65536 and SP is s again.
C23_JsrRtsInverse ==
    /\ (AfterRunInstr /\ opcode = \h60) =>
          /\ Len(log) = 6
          /\ \A i \in 1..6 : log[i].op = "read"
          /\ log[1].address = pre.prog_counter
          /\ log[2].address = After(1)
          /\ log[3].address = BitOr(\h0100, pre.stack_pointer)
          /\ log[4].address = BitOr(\h0100, (pre.stack_pointer + 1) % 256)
          /\ log[5].address = BitOr(\h0100, (pre.stack_pointer + 2) % 256)
          /\ log[6].address = StackedAddress
          /\ prog_counter = (StackedAddress + 1) % 65536
          /\ stack_pointer = (pre.stack_pointer + 2) % 256
    /\ (AfterRunInstr /\ opcode = \h60 /\ HoldsReturnProgram) =>
          /\ prog_counter = (CallSite + 3) % 65536
          /\ stack_pointer = CallStackPointer
          /\ phase = "running"

C23_Witness ==
    /\ AfterRunInstr /\ opcode = \h60
    /\ HoldsReturnProgram
    /\ CallSite = \hFFFE
    /\ CallStackPointer = \h00
    /\ pre.stack_pointer = \hFE
    /\ log[5].address = \h0100
    /\ prog_counter = \h0001
    /\ stack_pointer = \h00

\* the last operation left the flag bits of mask as they were
FlagsKept(mask) == BitAnd(status_flags, mask) = BitAnd(pre.status_flags, mask)

\* C24: until a PLP is run, B (bit 4) and Ignored (bit 5) keep their
\* power-on value 1, through reset and every implemented instruction; only
\* PLP changes B or Ignored, only CLD and PLP change Decimal, and only SEI,
\* reset and PLP change InterruptDisable.
C24_FlagBitsKept ==
    /\ \h28 \notin fetched =>
          FlagHas(status_flags, B_FLAG) /\ FlagHas(status_flags, IGNORED)
    /\ ret.call = "reset" => FlagsKept(B_FLAG + IGNORED + DECIMAL)
    /\ (AfterRunInstr /\ opcode # \h28) =>
          /\ FlagsKept(B_FLAG + IGNORED)
          /\ opcode # \hD8 => FlagsKept(DECIMAL)
          /\ opcode # \h78 => FlagsKept(INTERRUPT_DISABLE)

\* BIT 0x10 run with all flag bits clear, after a PLP pulled 0x00
C24_Witness ==
    /\ AfterRunInstr /\ opcode = \h24
    /\ \h28 \in fetched
    /\ pre.status_flags = \h00
    /\ status_flags = ZERO

\* the implemented opcodes by the bytes their addressing mode encodes:
\* Implied and Accumulator; Immediate, Zero Page, Zero-Page,X and
\* (Indirect),Y; Absolute and Absolute,X
OneByteOpcodes ==
    {\h08, \h68, \hBA, \h78, \hD8, \h9A, \hC8, \hE8, \hAA, \hCA, \h88, \h98,
     \h48, \hA8, \h28, \h6A}

TwoByteOpcodes ==
    {\hA0, \hA2, \hA9, \hC9, \h49, \hC0,
     \h84, \h86, \hE6, \h85, \h24, \h45, \h46, \h66, \hA5, \hA6, \hA4,
     \h95, \h91}

ThreeByteOpcodes == {\h8E, \h8C, \h8D, \hAD, \h2C, \h0D, \hAC, \h9D}

\* JMP, JSR, RTS and the relative branches
ControlFlowOpcodes == {\h4C, \h20, \h60} \cup BranchOpcodes

EncodedLength ==
    IF opcode \in OneByteOpcodes THEN 1
    ELSE IF opcode \in TwoByteOpcodes THEN 2 ELSE 3

\* C25: after every implemented instruction other than JMP, JSR, RTS and
\* the relative branches, PC is the PC before plus the encoded length of
\* the instruction, modulo 65536: 1 for Implied and Accumulator, 2 for
\* Immediate, Zero Page, Zero-Page,X and (Indirect),Y, 3 for Absolute and
\* Absolute,X.
C25_ProgramCounterAdvance ==
    /\ ImplementedOpcodes \ ControlFlowOpcodes =
          OneByteOpcodes \cup TwoByteOpcodes \cup ThreeByteOpcodes
    /\ (AfterRunInstr /\ opcode \in ImplementedOpcodes \ ControlFlowOpcodes) =>
          /\ prog_counter = After(EncodedLength)
          /\ phase = "running"

\* ROR A at 0xFFFF leaves PC at 0x0000
C25_Witness ==
    /\ AfterRunInstr /\ opcode = \h6A
    /\ pre.prog_counter = \hFFFF
    /\ Len(log) = 2
    /\ log[2].address = \h0000
    /\ prog_counter = \h0000

\* the register the last absolute load loaded: A for LDA, Y for LDY
Loaded == IF opcode = \hAD THEN a_reg ELSE y_reg

\* C26: LDA / LDY Absolute with an operand address w that no device claims
\* (0x2000..0xBFFF) ends with the register equal to w >> 8, the last byte
\* fetched before the open-bus read, with Zero and Negative set from that
\* byte and with the bus latch still w >> 8.
C26_OpenBusLoad ==
    (AfterRunInstr /\ opcode \in {\hAD, \hAC} /\ Unclaimed(AbsoluteOperand)) =>
       /\ Len(log) = 4
       /\ ReadAt(4, AbsoluteOperand)
       /\ ~log[4].claimed
       /\ Loaded = Hi(AbsoluteOperand)
       /\ FlagHas(status_flags, ZERO) <=> Hi(AbsoluteOperand) = 0
       /\ FlagHas(status_flags, NEGATIVE) <=> Hi(AbsoluteOperand) >= \h80
       /\ FlagsKeptOutside(ZERO + NEGATIVE)
       /\ last_exchanged_value = Hi(AbsoluteOperand)

\* LDY 0xBFFF with Y = 0x00 and Zero set: Y becomes 0xBF, not the ROM byte
C26_Witness ==
    /\ AfterRunInstr /\ opcode = \hAC
    /\ AbsoluteOperand = \hBFFF
    /\ pre.y_reg = \h00
    /\ FlagHas(pre.status_flags, ZERO)
    /\ y_reg = \hBF
    /\ ~FlagHas(status_flags, ZERO)
    /\ FlagHas(status_flags, NEGATIVE)
    /\ last_exchanged_value = \hBF

\* the mapper number of an iNES header: the high nibble of byte 6 is its low
\* nibble, the high nibble of byte 7 its high nibble
InesMapper(header_bytes) ==
    BitOr(header_bytes[7] \div 16, BitAnd(header_bytes[8], \hF0))

\* the file has the magic signature and all the PRG data its header names
WellFormedFile ==
    /\ MagicOk(file.header)
    /\ file.header[5] <= Len(file.prg)

\* C16: for every pair of header bytes 6 and 7 (of a file with the magic and
\* its PRG data), the loader goes on to build the cartridge and the CPU
\* exactly when (byte6 >> 4) | (byte7 & 0xF0) = 1; every other mapper number
\* ends in the fatal stop with no CPU state created.
C16_MapperOneOnly ==
    (ret.call = "load" /\ WellFormedFile) =>
       IF InesMapper(file.header) = 1
       THEN /\ phase = "new"
            /\ pages = SubSeq(file.prg, 1, file.header[5])
            /\ a_reg = 0 /\ stack_pointer = \hFF /\ status_flags = \h34
       ELSE /\ phase = "panicked"
            /\ a_reg = None /\ x_reg = None /\ y_reg = None
            /\ prog_counter = None /\ stack_pointer = None
            /\ status_flags = None


====
